---- MODULE Spec2Model ----
(***************************************************************************)
(* Cost-recognition and GRIR-exposure engines of the cost-management       *)
(* pipeline (scripts/stage2_transform/05_calculate_cost_impact.py and      *)
(* 06_calculate_grir.py), as a state machine over the three intermediate   *)
(* tables: PO line items, GR postings and IR postings.                     *)
(*                                                                         *)
(* Units.  A quantity is an integer number of thirds of 0.0001, so that    *)
(* quantities finer than the four decimals kept by round(grir_qty, 4) are  *)
(* representable and no decimal tie arises.  Money is an integer number of *)
(* cents.  A unit price is the pair Purchase Value USD / Ordered Quantity  *)
(* (cents per quantity unit), kept as a fraction.  A float amount is a     *)
(* record [kind, cents] with kind "fin", "inf", "-inf" or "nan".           *)
(***************************************************************************)
EXTENDS Integers, Sequences, FiniteSets, TLC

\* ------------------------------------------------------------------ bounds
\* Rows of the GR table and the IR table together.
MaxPostings == 3

\* Latest day on which the GRIR script runs in the aging runs.
MaxSnapshotDate == 400

\* ------------------------------------------------------- program constants
SIMPLE_VENDOR_CATEGORY == "GLD"
SIMPLE_ACCOUNT_CATEGORIES == {"K", "P", "S", "V"}
CLOSED_PO == "CLOSED PO"
\* A missing cell of a string column.
NaN == "NaN"
\* first_exposure_date = None
None == 0
\* Upper limit in days of each bucket but the last, and its label.
GRIR_TIME_BUCKETS ==
    [t \in {30, 90, 180, 365} |->
        IF t = 30 THEN "<1 month"
        ELSE IF t = 90 THEN "1-3 months"
        ELSE IF t = 180 THEN "3-6 months"
        ELSE "6-12 months"]
GRIR_TIME_BUCKET_MAX == ">1 year"

\* ------------------------------------------------------------ input domain
Lines == {"P1", "P2"}
\* Two posting days: with GR sorted before IR on a shared day they put any three
\* postings of a line in every order of types.
Dates == {1, 2}
\* A reversal and a receipt, in thirds of 0.0001: sums of them reach net
\* quantities below, at and above the fourth decimal.
Quantities == {-1, 2}
\* A Posting Date cell that is not a date (it sorts after every date), and a
\* quantity cell that is not a number.
BadDate == 99
Malformed == 999
\* A PO Line ID of the posting exports that the PO line table does not hold.
OrphanLines == {"P9"}
\* Days on which the GRIR script runs: the first posting day, and a day 30 days
\* after the second one (31 after the first).
SnapshotDates == {1, 32}

\* Sort rank of a PO Line ID and of a Posting Type ("GR" < "IR").
LineRank(l) == IF l = "P1" THEN 1 ELSE IF l = "P2" THEN 2 ELSE 3
TypeRank(t) == IF t = "GR" THEN 1 ELSE 2

\* Rows of the cleaned PO line table.  value is Purchase Value USD in cents,
\* ordered is Ordered Quantity in quantity units.
PoRow(v, a, s, pv, oq) ==
    [vendor |-> v, acct |-> a, status |-> s, value |-> pv, ordered |-> oq]

SimpleOpen == PoRow("GLD", "K", "OPEN", 5, 3)
SimpleZero == PoRow("GLD", "V", "OPEN", 4, 0)
SimpleClosed == PoRow("GLD", "P", CLOSED_PO, 5, 3)
ComplexVendor == PoRow("OPS", "K", "OPEN", 7, 3)
ComplexAcct == PoRow("GLD", "F", "OPEN", 7, 3)
ComplexNoVendor == PoRow(NaN, "S", "OPEN", 4, 0)
ComplexNoAcct == PoRow("GLD", NaN, CLOSED_PO, 0, 0)
ComplexNoValue == PoRow("OPS", "K", "OPEN", 0, 3)

\* PO line tables of the engine runs; PO Line ID is the unique key of the table.
PoTables ==
    { [P1 |-> SimpleOpen, P2 |-> ComplexVendor],
      [P1 |-> SimpleOpen, P2 |-> SimpleZero],
      [P1 |-> ComplexAcct, P2 |-> ComplexNoVendor],
      [P1 |-> SimpleClosed, P2 |-> ComplexNoAcct] }

\* Two of them: an eligible Simple line next to a Complex line, and two Complex
\* lines, one with Ordered Quantity 0.
MixedTables ==
    { [P1 |-> SimpleOpen, P2 |-> ComplexVendor],
      [P1 |-> ComplexAcct, P2 |-> ComplexNoVendor] }

\* PO line tables of the stage 3 runs: a line with Ordered Quantity 0, closed
\* lines with and without a purchase value, and an open line without one.
PrepareTables ==
    { [P1 |-> SimpleOpen, P2 |-> SimpleZero],
      [P1 |-> SimpleClosed, P2 |-> ComplexNoValue],
      [P1 |-> ComplexAcct, P2 |-> ComplexNoAcct] }

\* PO line tables of the classification runs: every combination of the columns.
ClassifyRows ==
    { PoRow(v, a, s, 5, 3) : v \in {"GLD", "OPS", NaN},
                             a \in {"K", "P", "S", "V", "F", NaN},
                             s \in {"OPEN", CLOSED_PO} }
ClassifyTables == [Lines -> ClassifyRows]

VARIABLES
    po_df,            \* PO line table: PO Line ID -> row
    gr_df,            \* GR postings table, in file row order
    ir_df,            \* IR postings table, in file row order
    dropped_count,    \* stage 1: posting rows without a matching PO Line ID
    pc,               \* position in the two stage-2 scripts
    simple_po_ids,    \* 05: classify_po_line_items result (Type 1)
    complex_po_ids,   \* 05: classify_po_line_items result (Type 2)
    simple_impact,    \* 05: calculate_simple_cost_impact result
    combined,         \* 05: merged and sorted complex postings
    ci,               \* 05: index of the next row of combined
    cumulative_gr,    \* 05: loop counters of the current PO line
    cumulative_ir,
    last_cumulative,
    results,          \* 05: complex cost impact records
    all_impact,       \* 05: rows written to cost_impact.csv
    grir_po_ids,      \* 06: get_simple_po_ids result
    unit_prices,      \* 06: get_unit_prices result
    g_combined,       \* 06: merged and sorted simple postings
    gi,               \* 06: index of the next row of g_combined
    g_cumulative_gr,  \* 06: loop counters of the current PO line
    g_cumulative_ir,
    first_exposure_date,
    snapshot_date,    \* 06: date.today() of the run
    grir_results,     \* 06: GRIR exposure records
    run,              \* 1 in the first run of the two scripts, 2 in a repeated run
    first_out,        \* tables and outputs as the first run left them
    pipeline,         \* pipeline.py: position, scripts started, return codes
    open_values,      \* stage 3: rows returned by calculate_open_values
    po_transactions,  \* stage 3: rows written to import-ready po_transactions.csv
    order,            \* validators/pipeline_order.py: graph, DFS and sort state
    cache             \* utils/xlsx_cache.py: files on disk and the manager object

vars == << po_df, gr_df, ir_df, dropped_count, pc, simple_po_ids, complex_po_ids, simple_impact,
           combined, ci, cumulative_gr, cumulative_ir, last_cumulative, results,
           all_impact, grir_po_ids, unit_prices, g_combined, gi, g_cumulative_gr,
           g_cumulative_ir, first_exposure_date, snapshot_date, grir_results,
           run, first_out, pipeline, open_values, po_transactions, order, cache >>

prepVars == << open_values, po_transactions >>
toolVars == << order, cache >>
runVars == << run, first_out, pipeline, prepVars, toolVars >>
fileVars == << po_df, gr_df, ir_df, dropped_count >>
costVars == << simple_po_ids, complex_po_ids, simple_impact, combined, ci,
               cumulative_gr, cumulative_ir, last_cumulative, results, all_impact >>
grirVars == << grir_po_ids, unit_prices, g_combined, gi, g_cumulative_gr,
               g_cumulative_ir, first_exposure_date, snapshot_date, grir_results >>

\* ----------------------------------------------------------- float helpers
Max(a, b) == IF a >= b THEN a ELSE b

\* n / d rounded to the nearest integer, halves to the even neighbour (d > 0).
RoundHalfEven(n, d) ==
    LET q == n \div d
        r == n % d
    IN  IF 2 * r < d THEN q
        ELSE IF 2 * r > d THEN q + 1
        ELSE IF q % 2 = 0 THEN q ELSE q + 1

Fin(c) == [kind |-> "fin", cents |-> c]
NotFin(k) == [kind |-> k, cents |-> 0]

\* Purchase Value USD / Ordered Quantity, as pandas divides two float columns.
UnitPrice(row) == [num |-> row.value, den |-> row.ordered]

\* round(qty * unit_price, 2) in float arithmetic.
RoundAmount(qty, price) ==
    IF price.den # 0 THEN Fin(RoundHalfEven(qty * price.num, price.den))
    ELSE IF price.num = 0 \/ qty = 0 THEN NotFin("nan")
    ELSE IF qty * price.num > 0 THEN NotFin("inf")
    ELSE NotFin("-inf")

\* a + b on two float amounts.
FloatAdd(a, b) ==
    IF a.kind = "nan" \/ b.kind = "nan" THEN NotFin("nan")
    ELSE IF a.kind = "fin" /\ b.kind = "fin" THEN Fin(a.cents + b.cents)
    ELSE IF a.kind = "fin" THEN b
    ELSE IF b.kind = "fin" THEN a
    ELSE IF a.kind = b.kind THEN a
    ELSE NotFin("nan")

\* -a on a float amount.
FloatNeg(a) ==
    IF a.kind = "fin" THEN Fin(-a.cents)
    ELSE IF a.kind = "inf" THEN NotFin("-inf")
    ELSE IF a.kind = "-inf" THEN NotFin("inf")
    ELSE a

\* a - b on two float amounts.
FloatSub(a, b) == FloatAdd(a, FloatNeg(b))

\* round(grir_qty, 4): the result counts whole 0.0001s.
Round4(qty) == RoundHalfEven(qty, 3)

\* ----------------------------------------------------------------- sorting
\* Variant: the type column is listed before the date column.
KeyLE_TypeFirst(a, b) ==
    \/ LineRank(a.line) < LineRank(b.line)
    \/ /\ a.line = b.line
       /\ \/ TypeRank(a.type) < TypeRank(b.type)
          \/ a.type = b.type /\ a.date <= b.date

\* Sort key of DataFrame.sort_values(["PO Line ID", "Posting Date", "Posting Type"]).
KeyLE(a, b) ==
    \/ LineRank(a.line) < LineRank(b.line)
    \/ /\ a.line = b.line
       /\ \/ a.date < b.date
          \/ a.date = b.date /\ TypeRank(a.type) <= TypeRank(b.type)

\* Sort key of DataFrame.sort_values(["PO Line ID", "Posting Date"]).
KeyLE2(a, b) ==
    \/ LineRank(a.line) < LineRank(b.line)
    \/ a.line = b.line /\ a.date <= b.date

RECURSIVE InsertSorted(_, _)
InsertSorted(s, x) ==
    IF s = << >> THEN << x >>
    ELSE IF KeyLE(Head(s), x) THEN << Head(s) >> \o InsertSorted(Tail(s), x)
    ELSE << x >> \o s

\* Stable multi-column sort: rows with equal keys keep their input order.
RECURSIVE SortValues(_)
SortValues(s) ==
    IF s = << >> THEN << >>
    ELSE InsertSorted(SortValues(SubSeq(s, 1, Len(s) - 1)), s[Len(s)])

RECURSIVE InsertSorted2(_, _)
InsertSorted2(s, x) ==
    IF s = << >> THEN << x >>
    ELSE IF KeyLE2(Head(s), x) THEN << Head(s) >> \o InsertSorted2(Tail(s), x)
    ELSE << x >> \o s

\* The same stable sort on the two columns of main().
RECURSIVE SortValues2(_)
SortValues2(s) ==
    IF s = << >> THEN << >>
    ELSE InsertSorted2(SortValues2(SubSeq(s, 1, Len(s) - 1)), s[Len(s)])

SelectLines(s, ids) == SelectSeq(s, LAMBDA r : r.line \in ids)
\* The rows of a table, as a set.
RowSet(s) == {s[i] : i \in 1..Len(s)}

\* ------------------------------------------------------------- pipeline.py
STAGE1_SCRIPTS ==
    << "stage1_clean/01_po_line_items.py",
       "stage1_clean/02_gr_postings.py",
       "stage1_clean/03_ir_postings.py" >>
STAGE2_SCRIPTS ==
    << "stage2_transform/04_enrich_po_line_items.py",
       "stage2_transform/05_calculate_cost_impact.py",
       "stage2_transform/06_calculate_grir.py" >>
STAGE3_SCRIPTS ==
    << "stage3_prepare/06_prepare_po_line_items.py",
       "stage3_prepare/07_prepare_po_transactions.py",
       "stage3_prepare/08_prepare_grir_exposures.py" >>

\* stages of run_pipeline
stages == << STAGE1_SCRIPTS, STAGE2_SCRIPTS, STAGE3_SCRIPTS >>

\* Exit codes of a script: 0 from sys.exit(0), 1 from sys.exit(1) (main() returned
\* False, e.g. a required input file is missing) and from an unhandled exception,
\* 2 from any other failure of the interpreter.
ReturnCodes == {0, 1, 2}

\* The state of pipeline.py at pc; exit_status is read once pc is "exited".
PipelineAt(p, m) ==
    [pc |-> p, max_stage |-> m, stage |-> 1, index |-> 1, started |-> << >>,
     returncodes |-> << >>, not_found |-> << >>, exit_status |-> 0]

\* pipeline.py is not running.
NoPipeline == PipelineAt("idle", 3)

\* ----------------------------------------------- validators/pipeline_order.py
\* Scripts of the lineage, and a script that only a DEPENDS_ON edge names.
Scripts == {"01_po_line_items", "02_gr_postings", "05_calculate_cost_impact"}
Unlisted == {"00_legacy"}

\* Dependency graphs: script -> set of scripts it depends on, with at most two
\* dependencies per script.
Graphs ==
    [Scripts -> {deps \in SUBSET (Scripts \cup Unlisted) : Cardinality(deps) <= 2}]

\* The state of validate() at pc over graph g: the DFS of detect_cycles (visited,
\* path with rec_stack as its elements, the neighbours each frame has still to
\* look at, cycles) and the queue loop of topological_sort.
OrderAt(p, g) ==
    [pc |-> p, graph |-> g, visited |-> {}, path |-> << >>, todo |-> << >>,
     cycles |-> << >>, in_degree |-> [n \in DOMAIN g |-> 0], queue |-> << >>,
     result |-> << >>, topo_order |-> << >>, passed |-> FALSE]

\* validate() is not running.
NoOrder == OrderAt("idle", [n \in {} |-> {}])

\* ------------------------------------------------------- utils/xlsx_cache.py
\* Source files the glob pattern can match, with the rank of the name in
\* lexicographic order.
SourceNames == {"Export_1.xlsx", "Export_2.xlsx"}
NameRank(name) == IF name = "Export_1.xlsx" THEN 1 ELSE 2

\* No file / no path.
NoFile == ""

\* os.stat of a file: st_mtime and st_size; Absent for a file that is not there.
Stats == [mtime : {1, 2}, size : {1, 2}]
Absent == [mtime |-> 0, size |-> 0]

\* Hashes of the script and its dependency files.
DepsHashes == {"h1", "h2"}

\* The sidecar: not there, a JSON dump of a CacheMetadata, or damaged (text that
\* is not JSON, JSON that is not the fields of CacheMetadata, bytes that do not
\* decode as text).
NoMeta == [source_file |-> NoFile, source_mtime |-> 0, source_size |-> 0, deps_hash |-> ""]
Sidecar(kind, meta) == [kind |-> kind, meta |-> meta]
Damage == {"not_json", "not_fields", "not_text"}

\* No XlsxCacheManager object.
NoManager == [_source_file |-> NoFile, deps_hash |-> ""]

\* The files on disk (source xlsx files, output CSV, sidecar, hash of the
\* dependency files as they are now), the manager object, and the last call
\* with what it returned or raised.
CacheAt(p, src) ==
    [pc |-> p, source |-> src, output |-> FALSE, sidecar |-> Sidecar("missing", NoMeta),
     deps |-> "h1", manager |-> NoManager, call |-> "none", outcome |-> "none"]

\* No cache is in use.
NoCache == CacheAt("idle", [n \in SourceNames |-> Absent])

\* ------------------------------------------------------------ initial state
\* Nothing has run yet.
NoOutput ==
    [po |-> << >>, gr |-> << >>, ir |-> << >>, cost_impact |-> << >>,
     grir |-> << >>, snapshot_date |-> None]

InitWith(tables) ==
    /\ po_df \in tables
    /\ gr_df = << >>
    /\ ir_df = << >>
    /\ dropped_count = 0
    /\ pc = "load"
    /\ simple_po_ids = {}
    /\ complex_po_ids = {}
    /\ simple_impact = << >>
    /\ combined = << >>
    /\ ci = 1
    /\ cumulative_gr = 0
    /\ cumulative_ir = 0
    /\ last_cumulative = 0
    /\ results = << >>
    /\ all_impact = << >>
    /\ grir_po_ids = {}
    /\ unit_prices = [l \in {} |-> 0]
    /\ g_combined = << >>
    /\ gi = 1
    /\ g_cumulative_gr = 0
    /\ g_cumulative_ir = 0
    /\ first_exposure_date = None
    /\ snapshot_date = None
    /\ grir_results = << >>
    /\ run = 1
    /\ first_out = NoOutput
    /\ pipeline = NoPipeline
    /\ open_values = << >>
    /\ po_transactions = << >>
    /\ order = NoOrder
    /\ cache = NoCache

\* ------------------------------------------------- stage 1: cleaned inputs
\* GR Amount = (Purchase Value USD / Ordered Quantity * GR Effective Quantity).round(2)
calculate_gr_amount(po, l, qty) == RoundAmount(qty, UnitPrice(po[l]))

\* Invoice Amount = (Purchase Value USD / Ordered Quantity * IR Effective Quantity).round(2)
calculate_invoice_amount(po, l, qty) == RoundAmount(qty, UnitPrice(po[l]))

\* Variant: the merge keeps the rows without a matching PO Line ID.
InnerMerge_Left(po, rows) == rows

\* df.merge(unit_price_lookup, on="PO Line ID", how="inner")
InnerMerge(po, rows) == SelectSeq(rows, LAMBDA r : r.line \in DOMAIN po)

\* The posting's row with its amount column; no unit price, no amount.
WithAmount(po, r, amount) ==
    [line |-> r.line, date |-> r.date, qty |-> r.qty,
     amount |-> IF r.line \in DOMAIN po THEN amount ELSE NotFin("nan")]

\* One more row of the raw GR export, of a PO line in ids, through stage 1 into
\* data/intermediate/gr_postings.csv.
LoadGRRowOf(ids, dates, quantities) ==
    /\ pc = "load"
    /\ Len(gr_df) + Len(ir_df) + dropped_count < MaxPostings
    /\ \E l \in ids, d \in dates, q \in quantities :
          LET kept == InnerMerge(po_df, << [line |-> l, date |-> d, qty |-> q] >>)
          IN  IF kept # << >> /\ q = Malformed
              THEN \* Unit Price * quantity raises TypeError: the script exits
                   /\ pc' = "stage1_failed"
                   /\ UNCHANGED << gr_df, dropped_count >>
              ELSE /\ gr_df' = gr_df \o
                         [i \in 1..Len(kept) |->
                             WithAmount(po_df, kept[i], calculate_gr_amount(po_df, l, q))]
                   /\ dropped_count' = dropped_count + 1 - Len(kept)
                   /\ pc' = pc
    /\ UNCHANGED << runVars, po_df, ir_df, costVars, grirVars >>

\* One more row of the raw invoice export, through stage 1 into
\* data/intermediate/ir_postings.csv.
LoadIRRowOf(ids, dates, quantities) ==
    /\ pc = "load"
    /\ Len(gr_df) + Len(ir_df) + dropped_count < MaxPostings
    /\ \E l \in ids, d \in dates, q \in quantities :
          LET kept == InnerMerge(po_df, << [line |-> l, date |-> d, qty |-> q] >>)
          IN  IF kept # << >> /\ q = Malformed
              THEN /\ pc' = "stage1_failed"
                   /\ UNCHANGED << ir_df, dropped_count >>
              ELSE /\ ir_df' = ir_df \o
                         [i \in 1..Len(kept) |->
                             WithAmount(po_df, kept[i], calculate_invoice_amount(po_df, l, q))]
                   /\ dropped_count' = dropped_count + 1 - Len(kept)
                   /\ pc' = pc
    /\ UNCHANGED << runVars, po_df, gr_df, costVars, grirVars >>

\* The exports hold postings of the PO lines of the table only.
LoadGRRow == LoadGRRowOf(Lines, Dates, Quantities)
LoadIRRow == LoadIRRowOf(Lines, Dates, Quantities)

\* ------------------------------------------- 05_calculate_cost_impact.py
is_gld(row) == row.vendor = SIMPLE_VENDOR_CATEGORY
\* Variant: one category is missing from the list.
is_valid_cat_NoV(row) == row.acct \in {"K", "P", "S"}

is_valid_cat(row) == row.acct \in SIMPLE_ACCOUNT_CATEGORIES
simple_mask(row) == is_gld(row) /\ is_valid_cat(row)

classify_po_line_items(po) ==
    [simple |-> {l \in DOMAIN po : simple_mask(po[l])},
     complex |-> {l \in DOMAIN po : ~simple_mask(po[l])}]

ClassifyPoLineItems ==
    /\ pc = "load"
    /\ simple_po_ids' = classify_po_line_items(po_df).simple
    /\ complex_po_ids' = classify_po_line_items(po_df).complex
    /\ pc' = "simple"
    /\ UNCHANGED << runVars, fileVars, simple_impact, combined, ci, cumulative_gr,
                    cumulative_ir, last_cumulative, results, all_impact, grirVars >>

\* Variant: the amount column is filled from the quantity column.
SimpleRecord_QtyAsAmount(r) ==
    [line |-> r.line, date |-> r.date, type |-> "GR", qty |-> r.qty,
     impact_qty |-> r.qty, impact_amount |-> Fin(r.qty)]

SimpleRecord(r) ==
    [line |-> r.line, date |-> r.date, type |-> "GR", qty |-> r.qty,
     impact_qty |-> r.qty, impact_amount |-> r.amount]

calculate_simple_cost_impact(gr, ids) ==
    LET simple_gr == SelectLines(gr, ids)
    IN  [i \in 1..Len(simple_gr) |-> SimpleRecord(simple_gr[i])]

CalculateSimpleCostImpact ==
    /\ pc = "simple"
    /\ simple_impact' = calculate_simple_cost_impact(gr_df, simple_po_ids)
    /\ pc' = "complex_merge"
    /\ UNCHANGED << runVars, fileVars, simple_po_ids, complex_po_ids, combined, ci,
                    cumulative_gr, cumulative_ir, last_cumulative, results, all_impact,
                    grirVars >>

Typed(t, r) == [line |-> r.line, date |-> r.date, type |-> t, qty |-> r.qty]
TagGR(s) == [i \in 1..Len(s) |-> Typed("GR", s[i])]
TagIR(s) == [i \in 1..Len(s) |-> Typed("IR", s[i])]

\* Filter both tables to the ids, tag, concatenate and sort.
CombinePostings(gr, ir, ids) ==
    SortValues(TagGR(SelectLines(gr, ids)) \o TagIR(SelectLines(ir, ids)))

\* pd.to_datetime(combined["Posting Date"]) raises on a cell that is not a date.
to_datetime_raises(gr, ir, ids) ==
    \E r \in RowSet(SelectLines(gr, ids) \o SelectLines(ir, ids)) : r.date = BadDate

ComplexCombine ==
    /\ pc = "complex_merge"
    /\ IF to_datetime_raises(gr_df, ir_df, complex_po_ids)
       THEN \* nothing catches the exception: the script exits without output
            /\ pc' = "cost_impact_failed"
            /\ UNCHANGED << combined, results, ci >>
       ELSE /\ combined' = CombinePostings(gr_df, ir_df, complex_po_ids)
            /\ results' = << >>
            /\ ci' = 1
            /\ pc' = "complex_loop"
    /\ UNCHANGED << runVars, fileVars, simple_po_ids, complex_po_ids, simple_impact,
                    cumulative_gr, cumulative_ir, last_cumulative, all_impact,
                    grirVars >>

\* Variant: only the first row of the table opens a group.
GroupStart_FirstRowOnly(s, i) == i = 1

\* groupby("PO Line ID"): row i opens a new group.
GroupStart(s, i) == i = 1 \/ s[i - 1].line # s[i].line
\* Variant: every row closes a group.
GroupEnd_EveryRow(s, i) == TRUE

\* groupby("PO Line ID"): row i closes its group.
GroupEnd(s, i) == i = Len(s) \/ s[i + 1].line # s[i].line

\* Variant: a posting always claims its own side's cumulative.
Reference_OwnSide(type, gr, ir) == IF type = "GR" THEN gr ELSE ir

\* reference of one posting, from the counters after the posting was added.
Reference(type, gr, ir) ==
    IF type = "GR"
    THEN IF gr >= ir THEN gr ELSE Max(gr, ir)
    ELSE IF ir >= gr THEN ir ELSE Max(gr, ir)

\* Variant: a decrease of the reference is emitted as zero.
CostImpactQty_Floored(reference, last) == Max(reference - last, 0)

\* cost_impact_qty = reference - last_cumulative
CostImpactQty(reference, last) == reference - last

\* Variant: the mark that was emitted never moves back.
AddToCumulative_NoRetreat(last, cost_impact_qty) == last + Max(cost_impact_qty, 0)

\* last_cumulative += cost_impact_qty
AddToCumulative(last, cost_impact_qty) == last + cost_impact_qty

\* unit_prices.get(po_line_id, 0)
PriceOf(po, l) == IF l \in DOMAIN po THEN UnitPrice(po[l]) ELSE [num |-> 0, den |-> 1]

\* Variant: a posting whose delta is zero leaves no record.
EmitRecord_SkipZero(rs, rec) == IF rec.impact_qty = 0 THEN rs ELSE Append(rs, rec)

\* results.append({...})
EmitRecord(rs, rec) == Append(rs, rec)

ComplexStep ==
    /\ pc = "complex_loop"
    /\ ci <= Len(combined)
    /\ LET row == combined[ci]
           first == GroupStart(combined, ci)
           gr0 == IF first THEN 0 ELSE cumulative_gr
           ir0 == IF first THEN 0 ELSE cumulative_ir
           last0 == IF first THEN 0 ELSE last_cumulative
           gr1 == IF row.type = "GR" THEN gr0 + row.qty ELSE gr0
           ir1 == IF row.type = "GR" THEN ir0 ELSE ir0 + row.qty
           reference == Reference(row.type, gr1, ir1)
           cost_impact_qty == CostImpactQty(reference, last0)
           cost_impact_amount == RoundAmount(cost_impact_qty, PriceOf(po_df, row.line))
       IN  /\ cumulative_gr' = gr1
           /\ cumulative_ir' = ir1
           /\ last_cumulative' = AddToCumulative(last0, cost_impact_qty)
           /\ results' = EmitRecord(results,
                  [line |-> row.line, date |-> row.date, type |-> row.type,
                   qty |-> row.qty, impact_qty |-> cost_impact_qty,
                   impact_amount |-> cost_impact_amount])
    /\ ci' = ci + 1
    /\ UNCHANGED << runVars, fileVars, pc, simple_po_ids, complex_po_ids,
                    simple_impact, combined, all_impact, grirVars >>

\* Variant: the rows are added to the file's earlier content.
save_data_Append(file, df) == file \o df

\* df.to_csv(filepath, index=False): the file holds the rows of df.
save_data(file, df) == df

\* main(): concatenate both record sets, sort by line and date, save.
SaveCostImpact ==
    /\ pc = "complex_loop"
    /\ ci > Len(combined)
    /\ all_impact' = save_data(all_impact, SortValues2(simple_impact \o results))
    /\ pc' = "grir_ids"
    /\ UNCHANGED << runVars, fileVars, simple_po_ids, complex_po_ids, simple_impact,
                    combined, ci, cumulative_gr, cumulative_ir, last_cumulative,
                    results, grirVars >>

\* ------------------------------------------------- 06_calculate_grir.py
\* Variant: the receipt status is not consulted.
is_not_closed_Ignored(row) == TRUE

is_not_closed(row) == row.status # CLOSED_PO

get_simple_po_ids(po) ==
    {l \in DOMAIN po : is_gld(po[l]) /\ is_valid_cat(po[l]) /\ is_not_closed(po[l])}

get_unit_prices(po) == [l \in DOMAIN po |-> UnitPrice(po[l])]

\* main() step 2: the eligible PO Line IDs and the unit price lookup.
IdentifySimplePOs ==
    /\ pc = "grir_ids"
    /\ grir_po_ids' = get_simple_po_ids(po_df)
    /\ unit_prices' = get_unit_prices(po_df)
    /\ pc' = "grir_merge"
    /\ UNCHANGED << runVars, fileVars, costVars, g_combined, gi, g_cumulative_gr,
                    g_cumulative_ir, first_exposure_date, snapshot_date, grir_results >>

\* main() step 3 on one of the days in today, up to the sorted posting table.
GrirCombineOn(today) ==
    /\ pc = "grir_merge"
    /\ snapshot_date' \in today
    /\ IF to_datetime_raises(gr_df, ir_df, grir_po_ids)
       THEN /\ pc' = "grir_failed"
            /\ UNCHANGED << g_combined, grir_results, gi >>
       ELSE /\ g_combined' = CombinePostings(gr_df, ir_df, grir_po_ids)
            /\ grir_results' = << >>
            /\ gi' = 1
            /\ pc' = "grir_loop"
    /\ UNCHANGED << runVars, fileVars, costVars, grir_po_ids, unit_prices,
                    g_cumulative_gr, g_cumulative_ir, first_exposure_date >>

GrirCombine == GrirCombineOn(SnapshotDates)

\* Variant: the date is never cleared when GR catches up.
TrackExposure_NoReset(fed, date, gr, ir) ==
    IF ir > gr /\ fed = None THEN date ELSE fed

\* first_exposure_date after one posting, from the counters after the posting.
TrackExposure(fed, date, gr, ir) ==
    LET opened == IF ir > gr /\ fed = None THEN date ELSE fed
    IN  IF gr >= ir THEN None ELSE opened

\* Variant: a day that equals a limit falls into the next bucket.
categorize_time_bucket_Strict(days) ==
    LET fits == {t \in DOMAIN GRIR_TIME_BUCKETS : days < t}
    IN  IF fits = {} THEN GRIR_TIME_BUCKET_MAX
        ELSE GRIR_TIME_BUCKETS[CHOOSE t \in fits : \A u \in fits : t <= u]

\* The label of the first limit, in ascending order, that days does not exceed.
categorize_time_bucket(days) ==
    LET fits == {t \in DOMAIN GRIR_TIME_BUCKETS : days <= t}
    IN  IF fits = {} THEN GRIR_TIME_BUCKET_MAX
        ELSE GRIR_TIME_BUCKETS[CHOOSE t \in fits : \A u \in fits : t <= u]

\* (pd.Timestamp(snapshot_date) - first_exposure_date).days, or 0 without a date.
DaysOpen(snapshot, fed) == IF fed # None THEN snapshot - fed ELSE 0

\* Variant: a line whose IR equals its GR is recorded too.
HasExposure_NonNegative(grir_qty) == grir_qty >= 0

\* if grir_qty > 0
HasExposure(grir_qty) == grir_qty > 0

\* Variant: the value is computed from the rounded quantity.
ExposureRecords_ValueFromRounded(l, gr, ir, fed, prices, snapshot) ==
    LET grir_qty == ir - gr
        days_open == DaysOpen(snapshot, fed)
    IN  IF HasExposure(grir_qty)
        THEN << [line |-> l,
                 grir_qty |-> Round4(grir_qty),
                 grir_value |-> RoundAmount(3 * Round4(grir_qty),
                                   IF l \in DOMAIN prices THEN prices[l]
                                   ELSE [num |-> 0, den |-> 1]),
                 first_exposure_date |-> fed,
                 days_open |-> days_open,
                 time_bucket |-> categorize_time_bucket(days_open),
                 snapshot_date |-> snapshot] >>
        ELSE << >>

\* The record of one PO line after its last posting, or no record.
ExposureRecords(l, gr, ir, fed, prices, snapshot) ==
    LET grir_qty == ir - gr
        days_open == DaysOpen(snapshot, fed)
    IN  IF HasExposure(grir_qty)
        THEN << [line |-> l,
                 grir_qty |-> Round4(grir_qty),
                 grir_value |-> RoundAmount(grir_qty,
                                   IF l \in DOMAIN prices THEN prices[l]
                                   ELSE [num |-> 0, den |-> 1]),
                 first_exposure_date |-> fed,
                 days_open |-> days_open,
                 time_bucket |-> categorize_time_bucket(days_open),
                 snapshot_date |-> snapshot] >>
        ELSE << >>

GrirStep ==
    /\ pc = "grir_loop"
    /\ gi <= Len(g_combined)
    /\ LET row == g_combined[gi]
           first == GroupStart(g_combined, gi)
           gr0 == IF first THEN 0 ELSE g_cumulative_gr
           ir0 == IF first THEN 0 ELSE g_cumulative_ir
           fed0 == IF first THEN None ELSE first_exposure_date
           gr1 == IF row.type = "GR" THEN gr0 + row.qty ELSE gr0
           ir1 == IF row.type = "GR" THEN ir0 ELSE ir0 + row.qty
           fed1 == TrackExposure(fed0, row.date, gr1, ir1)
       IN  /\ g_cumulative_gr' = gr1
           /\ g_cumulative_ir' = ir1
           /\ first_exposure_date' = fed1
           /\ grir_results' =
                 IF GroupEnd(g_combined, gi)
                 THEN grir_results \o ExposureRecords(row.line, gr1, ir1, fed1,
                                                      unit_prices, snapshot_date)
                 ELSE grir_results
    /\ gi' = gi + 1
    /\ UNCHANGED << runVars, fileVars, pc, costVars, grir_po_ids, unit_prices,
                    g_combined, snapshot_date >>

SaveGrirExposures ==
    /\ pc = "grir_loop"
    /\ gi > Len(g_combined)
    /\ pc' = "done"
    /\ UNCHANGED << runVars, fileVars, costVars, grir_po_ids, unit_prices,
                    g_combined, gi, g_cumulative_gr, g_cumulative_ir,
                    first_exposure_date, snapshot_date, grir_results >>

Next ==
    \/ LoadGRRow
    \/ LoadIRRow
    \/ ClassifyPoLineItems
    \/ CalculateSimpleCostImpact
    \/ ComplexCombine
    \/ ComplexStep
    \/ SaveCostImpact
    \/ IdentifySimplePOs
    \/ GrirCombine
    \/ GrirStep
    \/ SaveGrirExposures

Init == InitWith(PoTables)

Spec == Init /\ [][Next]_vars

\* The classification alone, over every combination of the two columns.
InitClassify == InitWith(ClassifyTables)

NextClassify == ClassifyPoLineItems

SpecClassify == InitClassify /\ [][NextClassify]_vars

\* The GRIR script alone, run on any day from the day before the first posting
\* day on, over a table with one invoiced and unreceived Simple line.
AgingSnapshotDates == 0..MaxSnapshotDate

InitAging ==
    /\ po_df = [P1 |-> SimpleOpen, P2 |-> ComplexVendor]
    /\ gr_df = << >>
    /\ \E d \in Dates :
          ir_df = << [line |-> "P1", date |-> d, qty |-> 2,
                      amount |-> calculate_invoice_amount(po_df, "P1", 2)] >>
    /\ dropped_count = 0
    /\ pc = "grir_ids"
    /\ simple_po_ids = {"P1"}
    /\ complex_po_ids = {"P2"}
    /\ simple_impact = << >>
    /\ combined = << >>
    /\ ci = 1
    /\ cumulative_gr = 0
    /\ cumulative_ir = 0
    /\ last_cumulative = 0
    /\ results = << >>
    /\ all_impact = << >>
    /\ grir_po_ids = {}
    /\ unit_prices = [l \in {} |-> 0]
    /\ g_combined = << >>
    /\ gi = 1
    /\ g_cumulative_gr = 0
    /\ g_cumulative_ir = 0
    /\ first_exposure_date = None
    /\ snapshot_date = None
    /\ grir_results = << >>
    /\ run = 1
    /\ first_out = NoOutput
    /\ pipeline = NoPipeline
    /\ open_values = << >>
    /\ po_transactions = << >>
    /\ order = NoOrder
    /\ cache = NoCache

GrirCombineAging == GrirCombineOn(AgingSnapshotDates)

NextAging ==
    \/ IdentifySimplePOs
    \/ GrirCombineAging
    \/ GrirStep
    \/ SaveGrirExposures

SpecAging == InitAging /\ [][NextAging]_vars

\* The same run over exports that also hold postings of a PO line missing from
\* the PO line table.
InitOrphan == InitWith(MixedTables)

LoadGRRowOrphan == LoadGRRowOf(Lines \cup OrphanLines, Dates, Quantities)
LoadIRRowOrphan == LoadIRRowOf(Lines \cup OrphanLines, Dates, Quantities)

NextOrphan ==
    \/ LoadGRRowOrphan
    \/ LoadIRRowOrphan
    \/ ClassifyPoLineItems
    \/ CalculateSimpleCostImpact
    \/ ComplexCombine
    \/ ComplexStep
    \/ SaveCostImpact
    \/ IdentifySimplePOs
    \/ GrirCombine
    \/ GrirStep
    \/ SaveGrirExposures

SpecOrphan == InitOrphan /\ [][NextOrphan]_vars

\* The same run over exports in which a Posting Date cell or a quantity cell may
\* be malformed.
LoadGRRowMalformed ==
    LoadGRRowOf(Lines, Dates \cup {BadDate}, Quantities \cup {Malformed})
LoadIRRowMalformed ==
    LoadIRRowOf(Lines, Dates \cup {BadDate}, Quantities \cup {Malformed})

InitMalformed == InitWith({[P1 |-> SimpleOpen, P2 |-> ComplexVendor]})

NextMalformed ==
    \/ LoadGRRowMalformed
    \/ LoadIRRowMalformed
    \/ ClassifyPoLineItems
    \/ CalculateSimpleCostImpact
    \/ ComplexCombine
    \/ ComplexStep
    \/ SaveCostImpact
    \/ IdentifySimplePOs
    \/ GrirCombine
    \/ GrirStep
    \/ SaveGrirExposures

SpecMalformed == InitMalformed /\ [][NextMalformed]_vars

\* ------------------------------------------------------------- pipeline.py
\* for i, (stage_name, scripts) in enumerate(stages, 1): the next stage is run.
RunStage ==
    /\ pipeline.pc = "run_pipeline"
    /\ pipeline.stage <= Len(stages)
    /\ pipeline.stage <= pipeline.max_stage
    /\ pipeline' = [pipeline EXCEPT !.pc = "run_stage", !.index = 1]
    /\ UNCHANGED << run, first_out, prepVars, toolVars, fileVars, pc, costVars, grirVars >>

\* run_stage: the next script of the list is not on disk.
ScriptNotFound ==
    /\ pipeline.pc = "run_stage"
    /\ pipeline.index <= Len(stages[pipeline.stage])
    /\ pipeline' = [pipeline EXCEPT
                       !.not_found = Append(@, stages[pipeline.stage][pipeline.index]),
                       !.pc = "stage_failed"]
    /\ UNCHANGED << run, first_out, prepVars, toolVars, fileVars, pc, costVars, grirVars >>

\* Variant: the script after the next one is started.
NextScript_SkipOne(p) ==
    stages[p.stage][IF p.index < Len(stages[p.stage]) THEN p.index + 1 ELSE p.index]

\* The script run_stage turns to.
NextScript(p) == stages[p.stage][p.index]

\* run_script: subprocess.run starts the next script of the list.
StartScript ==
    /\ pipeline.pc = "run_stage"
    /\ pipeline.index <= Len(stages[pipeline.stage])
    /\ pipeline' = [pipeline EXCEPT !.started = Append(@, NextScript(pipeline)),
                                    !.pc = "run_script"]
    /\ UNCHANGED << run, first_out, prepVars, toolVars, fileVars, pc, costVars, grirVars >>

\* subprocess.run(check=True) returns: the script has exited with some code.
ScriptExits ==
    /\ pipeline.pc = "run_script"
    /\ \E code \in ReturnCodes :
          pipeline' = [pipeline EXCEPT
                          !.returncodes = Append(@, code),
                          !.index = IF code = 0 THEN @ + 1 ELSE @,
                          !.pc = IF code = 0 THEN "run_stage" ELSE "stage_failed"]
    /\ UNCHANGED << run, first_out, prepVars, toolVars, fileVars, pc, costVars, grirVars >>

\* run_stage returns True after the last script of the list.
StageDone ==
    /\ pipeline.pc = "run_stage"
    /\ pipeline.index > Len(stages[pipeline.stage])
    /\ pipeline' = [pipeline EXCEPT !.stage = @ + 1, !.pc = "run_pipeline"]
    /\ UNCHANGED << run, first_out, prepVars, toolVars, fileVars, pc, costVars, grirVars >>

\* run_stage returned False: run_pipeline returns False and main() exits with 1.
PipelineFailed ==
    /\ pipeline.pc = "stage_failed"
    /\ pipeline' = [pipeline EXCEPT !.exit_status = 1, !.pc = "exited"]
    /\ UNCHANGED << run, first_out, prepVars, toolVars, fileVars, pc, costVars, grirVars >>

\* The loop over the stages ended: run_pipeline returns True, main() exits with 0.
PipelineComplete ==
    /\ pipeline.pc = "run_pipeline"
    /\ (pipeline.stage > Len(stages) \/ pipeline.stage > pipeline.max_stage)
    /\ pipeline' = [pipeline EXCEPT !.exit_status = 0, !.pc = "exited"]
    /\ UNCHANGED << run, first_out, prepVars, toolVars, fileVars, pc, costVars, grirVars >>

\* main(): --stage1, --stage2 or neither option.
InitPipeline ==
    /\ po_df = [P1 |-> SimpleOpen, P2 |-> ComplexVendor]
    /\ gr_df = << >>
    /\ ir_df = << >>
    /\ dropped_count = 0
    /\ pc = "load"
    /\ simple_po_ids = {}
    /\ complex_po_ids = {}
    /\ simple_impact = << >>
    /\ combined = << >>
    /\ ci = 1
    /\ cumulative_gr = 0
    /\ cumulative_ir = 0
    /\ last_cumulative = 0
    /\ results = << >>
    /\ all_impact = << >>
    /\ grir_po_ids = {}
    /\ unit_prices = [l \in {} |-> 0]
    /\ g_combined = << >>
    /\ gi = 1
    /\ g_cumulative_gr = 0
    /\ g_cumulative_ir = 0
    /\ first_exposure_date = None
    /\ snapshot_date = None
    /\ grir_results = << >>
    /\ run = 1
    /\ first_out = NoOutput
    /\ \E m \in 1..3 : pipeline = PipelineAt("run_pipeline", m)
    /\ open_values = << >>
    /\ po_transactions = << >>
    /\ order = NoOrder
    /\ cache = NoCache

NextPipeline ==
    \/ RunStage
    \/ ScriptNotFound
    \/ StartScript
    \/ ScriptExits
    \/ StageDone
    \/ PipelineFailed
    \/ PipelineComplete

\* pipeline.py runs on without waiting, and every script it starts exits.
SpecPipeline == InitPipeline /\ [][NextPipeline]_vars /\ WF_vars(NextPipeline)

\* ------------------------------------------------ 04_prepare_po_transactions.py
\* Sort key of sort_values(["posting_date", "quantity"], ascending=[True, False]).
KeyLE_DateQtyDesc(a, b) == a.date < b.date \/ (a.date = b.date /\ a.qty >= b.qty)

RECURSIVE InsertSortedDateQtyDesc(_, _)
InsertSortedDateQtyDesc(s, x) ==
    IF s = << >> THEN << x >>
    ELSE IF KeyLE_DateQtyDesc(Head(s), x)
    THEN << Head(s) >> \o InsertSortedDateQtyDesc(Tail(s), x)
    ELSE << x >> \o s

\* The group sorted by date ascending, then quantity descending.
RECURSIVE SortDateQtyDesc(_)
SortDateQtyDesc(s) ==
    IF s = << >> THEN << >>
    ELSE InsertSortedDateQtyDesc(SortDateQtyDesc(SubSeq(s, 1, Len(s) - 1)), s[Len(s)])

\* Variant: the mark follows the receipts alone.
HighWater_GrOnly(cum_gr, cum_inv) == cum_gr

\* high_water = max(cum_gr, cum_inv)
HighWater(cum_gr, cum_inv) == Max(cum_gr, cum_inv)

\* The loop over the sorted group: cost_recognized_qty of each transaction.
RECURSIVE HighWaterFold(_, _, _, _)
HighWaterFold(s, cum_gr, cum_inv, prev_high_water) ==
    IF s = << >> THEN << >>
    ELSE LET row == Head(s)
             gr1 == IF row.type = "GR" THEN cum_gr + row.qty ELSE cum_gr
             inv1 == IF row.type = "GR" THEN cum_inv ELSE cum_inv + row.qty
             high_water == HighWater(gr1, inv1)
         IN  << [line |-> row.line, date |-> row.date, type |-> row.type,
                 qty |-> row.qty,
                 cost_recognized_qty |-> high_water - prev_high_water] >>
             \o HighWaterFold(Tail(s), gr1, inv1, high_water)

\* calculate_cost_recognition_high_water_mark(group)
calculate_cost_recognition_high_water_mark(group) ==
    HighWaterFold(SortDateQtyDesc(group), 0, 0, 0)

\* ----------------------------------------------- validators/pipeline_order.py
\* The orders in which the elements of a set can be listed.
ListingsOf(S) ==
    {f \in [1..Cardinality(S) -> S] : \A a, b \in 1..Cardinality(S) : f[a] = f[b] => a = b}

\* graph.get(node, set())
GraphGet(g, node) == IF node \in DOMAIN g THEN g[node] ELSE {}

\* Every action of validate() leaves the rest of the system alone.
OrderOnly == UNCHANGED << run, first_out, pipeline, prepVars, cache, fileVars, pc,
                          costVars, grirVars >>

\* detect_cycles: for node in graph: if node not in visited: dfs(node, []).
DfsRoot ==
    /\ order.pc = "detect_cycles"
    /\ order.path = << >>
    /\ \E node \in DOMAIN order.graph \ order.visited :
          order' = [order EXCEPT !.visited = @ \cup {node},
                                 !.path = << node >>,
                                 !.todo = << GraphGet(order.graph, node) >>]
    /\ OrderOnly

\* dfs: the next neighbour of the node on top of the path.
DfsNeighbor ==
    /\ order.pc = "detect_cycles"
    /\ order.path # << >>
    /\ LET top == Len(order.path)
       IN  \E neighbor \in order.todo[top] :
              LET rest == [order.todo EXCEPT ![top] = @ \ {neighbor}]
                  rec_stack == RowSet(order.path)
              IN  IF neighbor \notin order.visited
                  THEN order' = [order EXCEPT
                                    !.visited = @ \cup {neighbor},
                                    !.path = Append(@, neighbor),
                                    !.todo = Append(rest, GraphGet(order.graph, neighbor))]
                  ELSE IF neighbor \in rec_stack
                  THEN LET cycle_start == CHOOSE i \in 1..top : order.path[i] = neighbor
                       IN  order' = [order EXCEPT
                                        !.todo = rest,
                                        !.cycles = Append(@, SubSeq(order.path, cycle_start, top)
                                                                \o << neighbor >>)]
                  ELSE order' = [order EXCEPT !.todo = rest]
    /\ OrderOnly

\* dfs: every neighbour was looked at; path.pop(), rec_stack.remove(node).
DfsReturn ==
    /\ order.pc = "detect_cycles"
    /\ order.path # << >>
    /\ order.todo[Len(order.path)] = {}
    /\ order' = [order EXCEPT !.path = SubSeq(@, 1, Len(@) - 1),
                              !.todo = SubSeq(@, 1, Len(@) - 1)]
    /\ OrderOnly

\* in_degree = {node: len(graph.get(node, set())) for node in graph}
InDegree(g, node) == Cardinality(GraphGet(g, node))

\* reverse_graph[dep]: the scripts of the graph that depend on dep.
ReverseGraph(g, dep) == {node \in DOMAIN g : dep \in g[node]}

\* detect_cycles has returned; topological_sort up to its first queue, in the
\* order in which the dict lists the scripts.
TopoStart ==
    /\ order.pc = "detect_cycles"
    /\ order.path = << >>
    /\ DOMAIN order.graph \subseteq order.visited
    /\ LET deg == [node \in DOMAIN order.graph |-> InDegree(order.graph, node)]
       IN  \E q \in ListingsOf({node \in DOMAIN order.graph : deg[node] = 0}) :
              order' = [order EXCEPT !.pc = "topological_sort", !.in_degree = deg,
                                     !.queue = q, !.result = << >>]
    /\ OrderOnly

\* One round of the while loop: pop the head, append it to the result, lower the
\* in-degree of its dependents and queue those that reach 0, in the order in
\* which the set lists them.
TopoPop ==
    /\ order.pc = "topological_sort"
    /\ order.queue # << >>
    /\ LET node == Head(order.queue)
           dependents == ReverseGraph(order.graph, node)
           deg == [n \in DOMAIN order.graph |->
                      IF n \in dependents THEN order.in_degree[n] - 1
                      ELSE order.in_degree[n]]
       IN  \E q \in ListingsOf({n \in dependents : deg[n] = 0}) :
              order' = [order EXCEPT !.in_degree = deg,
                                     !.queue = Tail(@) \o q,
                                     !.result = Append(@, node)]
    /\ OrderOnly

\* The queue is empty: topological_sort returns, validate() computes passed.
TopoReturn ==
    /\ order.pc = "topological_sort"
    /\ order.queue = << >>
    /\ order' = [order EXCEPT
                    !.pc = "validated",
                    !.topo_order = IF Len(order.result) # Cardinality(DOMAIN order.graph)
                                   THEN << >> ELSE order.result,
                    !.passed = (Len(order.cycles) = 0)]
    /\ OrderOnly

\* validate() on a graph as build_dependency_graph returns it.
InitOrder ==
    /\ po_df = [P1 |-> SimpleOpen, P2 |-> ComplexVendor]
    /\ gr_df = << >>
    /\ ir_df = << >>
    /\ dropped_count = 0
    /\ pc = "load"
    /\ simple_po_ids = {}
    /\ complex_po_ids = {}
    /\ simple_impact = << >>
    /\ combined = << >>
    /\ ci = 1
    /\ cumulative_gr = 0
    /\ cumulative_ir = 0
    /\ last_cumulative = 0
    /\ results = << >>
    /\ all_impact = << >>
    /\ grir_po_ids = {}
    /\ unit_prices = [l \in {} |-> 0]
    /\ g_combined = << >>
    /\ gi = 1
    /\ g_cumulative_gr = 0
    /\ g_cumulative_ir = 0
    /\ first_exposure_date = None
    /\ snapshot_date = None
    /\ grir_results = << >>
    /\ run = 1
    /\ first_out = NoOutput
    /\ pipeline = NoPipeline
    /\ open_values = << >>
    /\ po_transactions = << >>
    /\ \E g \in Graphs : order = OrderAt("detect_cycles", g)
    /\ cache = NoCache

NextOrder ==
    \/ DfsRoot
    \/ DfsNeighbor
    \/ DfsReturn
    \/ TopoStart
    \/ TopoPop
    \/ TopoReturn

SpecOrder == InitOrder /\ [][NextOrder]_vars

\* ------------------------------------------------------- utils/xlsx_cache.py
\* Every action on the cache leaves the rest of the system alone.
CacheOnly == UNCHANGED << run, first_out, pipeline, prepVars, order, fileVars, pc,
                          costVars, grirVars >>

\* find_latest_xlsx: the file with the greatest (mtime, name), None without files.
find_latest_xlsx(src) ==
    LET files == {n \in SourceNames : src[n] # Absent}
    IN  IF files = {} THEN NoFile
        ELSE CHOOSE f \in files : \A o \in files :
                \/ src[o].mtime < src[f].mtime
                \/ src[o].mtime = src[f].mtime /\ NameRank(o) <= NameRank(f)

\* The source_file property: looked up once, then cached on the object.
source_file(c) ==
    IF c.manager._source_file = NoFile THEN find_latest_xlsx(c.source)
    ELSE c.manager._source_file

\* _load_metadata: "None", "meta", or the exception that escapes the except clause.
load_metadata(c) ==
    CASE c.sidecar.kind = "missing" -> "None"
      [] c.sidecar.kind = "json" -> "meta"
      [] c.sidecar.kind \in {"not_json", "not_fields"} -> "None"
      [] c.sidecar.kind = "not_text" -> "UnicodeDecodeError"

\* What is_valid returns ("True", "False") or raises.
is_valid(c) ==
    LET f == source_file(c)
        meta == c.sidecar.meta
    IN  IF f = NoFile THEN "False"
        ELSE IF ~c.output THEN "False"
        ELSE IF load_metadata(c) = "None" THEN "False"
        ELSE IF load_metadata(c) # "meta" THEN load_metadata(c)
        ELSE IF meta.source_file # f THEN "False"
        ELSE IF c.source[f] = Absent THEN "FileNotFoundError"
        ELSE IF c.source[f].mtime # meta.source_mtime THEN "False"
        ELSE IF c.source[f].size # meta.source_size THEN "False"
        ELSE IF meta.deps_hash # c.manager.deps_hash THEN "False"
        ELSE "True"

\* XlsxCacheManager(...): the dependency hash is computed, the source is not
\* looked up yet.
NewManager ==
    /\ cache.pc = "ready"
    /\ cache' = [cache EXCEPT !.manager = [_source_file |-> NoFile, deps_hash |-> cache.deps],
                              !.call = "__init__", !.outcome = "none"]
    /\ CacheOnly

\* cache.is_valid()
IsValid ==
    /\ cache.pc = "ready"
    /\ cache.manager # NoManager
    /\ cache' = [cache EXCEPT !.manager._source_file = source_file(cache),
                              !.call = "is_valid", !.outcome = is_valid(cache)]
    /\ CacheOnly

\* cache.save_metadata()
SaveMetadata ==
    /\ cache.pc = "ready"
    /\ cache.manager # NoManager
    /\ LET f == source_file(cache)
       IN  cache' =
             IF f = NoFile
             THEN [cache EXCEPT !.call = "save_metadata", !.outcome = "ValueError"]
             ELSE IF cache.source[f] = Absent
             THEN [cache EXCEPT !.manager._source_file = f,
                                !.call = "save_metadata", !.outcome = "FileNotFoundError"]
             ELSE [cache EXCEPT
                      !.manager._source_file = f,
                      !.sidecar = Sidecar("json",
                                     [source_file |-> f,
                                      source_mtime |-> cache.source[f].mtime,
                                      source_size |-> cache.source[f].size,
                                      deps_hash |-> cache.manager.deps_hash]),
                      !.call = "save_metadata", !.outcome = "None"]
    /\ CacheOnly

\* The script writes its output CSV.
WriteOutput ==
    /\ cache.pc = "ready"
    /\ ~cache.output
    /\ cache' = [cache EXCEPT !.output = TRUE, !.call = "none", !.outcome = "none"]
    /\ CacheOnly

\* A source file is written again, or a further export arrives: new mtime,
\* new size, or both.
WriteSource ==
    /\ cache.pc = "ready"
    /\ \E n \in SourceNames, st \in Stats :
          /\ cache.source[n] # st
          /\ cache' = [cache EXCEPT !.source[n] = st, !.call = "none", !.outcome = "none"]
    /\ CacheOnly

\* A source file is renamed; its mtime and size stay.
RenameSource ==
    /\ cache.pc = "ready"
    /\ \E n, to \in SourceNames :
          /\ cache.source[n] # Absent
          /\ cache.source[to] = Absent
          /\ cache' = [cache EXCEPT !.source[to] = cache.source[n], !.source[n] = Absent,
                                    !.call = "none", !.outcome = "none"]
    /\ CacheOnly

\* The output CSV is lost.
LoseOutput ==
    /\ cache.pc = "ready"
    /\ cache.output
    /\ cache' = [cache EXCEPT !.output = FALSE, !.call = "none", !.outcome = "none"]
    /\ CacheOnly

\* The sidecar is lost.
LoseSidecar ==
    /\ cache.pc = "ready"
    /\ cache.sidecar.kind # "missing"
    /\ cache' = [cache EXCEPT !.sidecar = Sidecar("missing", NoMeta),
                              !.call = "none", !.outcome = "none"]
    /\ CacheOnly

\* The sidecar is damaged.
CorruptSidecar ==
    /\ cache.pc = "ready"
    /\ cache.sidecar.kind = "json"
    /\ \E kind \in Damage :
          cache' = [cache EXCEPT !.sidecar = Sidecar(kind, NoMeta),
                                 !.call = "none", !.outcome = "none"]
    /\ CacheOnly

\* The script or one of its dependency files is edited.
EditScript ==
    /\ cache.pc = "ready"
    /\ \E h \in DepsHashes \ {cache.deps} :
          cache' = [cache EXCEPT !.deps = h, !.call = "none", !.outcome = "none"]
    /\ CacheOnly

\* A raw directory with no export or with one, no output and no sidecar yet.
InitCache ==
    /\ po_df = [P1 |-> SimpleOpen, P2 |-> ComplexVendor]
    /\ gr_df = << >>
    /\ ir_df = << >>
    /\ dropped_count = 0
    /\ pc = "load"
    /\ simple_po_ids = {}
    /\ complex_po_ids = {}
    /\ simple_impact = << >>
    /\ combined = << >>
    /\ ci = 1
    /\ cumulative_gr = 0
    /\ cumulative_ir = 0
    /\ last_cumulative = 0
    /\ results = << >>
    /\ all_impact = << >>
    /\ grir_po_ids = {}
    /\ unit_prices = [l \in {} |-> 0]
    /\ g_combined = << >>
    /\ gi = 1
    /\ g_cumulative_gr = 0
    /\ g_cumulative_ir = 0
    /\ first_exposure_date = None
    /\ snapshot_date = None
    /\ grir_results = << >>
    /\ run = 1
    /\ first_out = NoOutput
    /\ pipeline = NoPipeline
    /\ open_values = << >>
    /\ po_transactions = << >>
    /\ order = NoOrder
    /\ \E st \in {Absent, [mtime |-> 1, size |-> 1]} :
          cache = CacheAt("ready", [n \in SourceNames |->
                                      IF n = "Export_1.xlsx" THEN st ELSE Absent])

NextCache ==
    \/ NewManager
    \/ IsValid
    \/ SaveMetadata
    \/ WriteOutput
    \/ WriteSource
    \/ RenameSource
    \/ LoseOutput
    \/ LoseSidecar
    \/ CorruptSidecar
    \/ EditScript

SpecCache == InitCache /\ [][NextCache]_vars

\* Both scripts run a second time on the tables and the snapshot day of the
\* first run.
RunAgain ==
    /\ pc = "done"
    /\ run = 1
    /\ run' = 2
    /\ first_out' = [po |-> po_df, gr |-> gr_df, ir |-> ir_df,
                     cost_impact |-> all_impact, grir |-> grir_results,
                     snapshot_date |-> snapshot_date]
    /\ pc' = "load"
    /\ UNCHANGED << pipeline, prepVars, toolVars, fileVars, costVars, grirVars >>

LoadGRRowFirst == run = 1 /\ LoadGRRow
LoadIRRowFirst == run = 1 /\ LoadIRRow
GrirCombineSameDay ==
    GrirCombineOn(IF run = 1 THEN SnapshotDates ELSE {first_out.snapshot_date})

InitRerun == InitWith({[P1 |-> SimpleOpen, P2 |-> ComplexVendor]})

NextRerun ==
    \/ LoadGRRowFirst
    \/ LoadIRRowFirst
    \/ ClassifyPoLineItems
    \/ CalculateSimpleCostImpact
    \/ ComplexCombine
    \/ ComplexStep
    \/ SaveCostImpact
    \/ IdentifySimplePOs
    \/ GrirCombineSameDay
    \/ GrirStep
    \/ SaveGrirExposures
    \/ RunAgain

SpecRerun == InitRerun /\ [][NextRerun]_vars

\* ================================================================ properties
RECURSIVE SumQty(_)
SumQty(s) == IF s = << >> THEN 0 ELSE Head(s).qty + SumQty(Tail(s))

RECURSIVE SumImpactQty(_)
SumImpactQty(s) == IF s = << >> THEN 0 ELSE Head(s).impact_qty + SumImpactQty(Tail(s))

OfLine(s, l) == SelectSeq(s, LAMBDA r : r.line = l)
OfType(s, t) == SelectSeq(s, LAMBDA r : r.type = t)
Prefix(s, k) == SubSeq(s, 1, k)
Occurrences(s, x) == Cardinality({i \in 1..Len(s) : s[i] = x})
SameBag(s, t) ==
    /\ Len(s) = Len(t)
    /\ \A i \in 1..Len(s) : Occurrences(s, s[i]) = Occurrences(t, s[i])

\* ------------------------------- stage3_prepare/06_prepare_po_line_items.py
\* PO Line IDs in ascending order: the order of the groups of a groupby.
LineOrder == << "P1", "P2", "P9" >>

\* sum of a float column: NaN cells are skipped.
RECURSIVE SumSkipNa(_)
SumSkipNa(s) ==
    IF s = << >> THEN Fin(0)
    ELSE LET rest == SumSkipNa(SubSeq(s, 1, Len(s) - 1))
             a == s[Len(s)].impact_amount
         IN  IF a.kind = "nan" THEN rest ELSE FloatAdd(rest, a)

\* cost_df.groupby("PO Line ID").agg(sum): one row per PO Line ID of cost_df.
cost_agg(cost_df) ==
    LET keys == SelectSeq(LineOrder, LAMBDA l : \E r \in RowSet(cost_df) : r.line = l)
    IN  [i \in 1..Len(keys) |->
            [line |-> keys[i],
             total_qty |-> SumImpactQty(OfLine(cost_df, keys[i])),
             total_amount |-> SumSkipNa(OfLine(cost_df, keys[i]))]]

\* fillna(0) on a float cell.
fillna(a) == IF a.kind = "nan" THEN Fin(0) ELSE a

\* po_df.merge(cost_agg, on="PO Line ID", how="left") and the two fillna(0): the
\* rows of the PO line with rank i and after, each with the totals of every
\* matching row of agg, or with totals 0 when none matches.
RECURSIVE LeftMerge(_, _, _)
LeftMerge(po, agg, i) ==
    IF i > Len(LineOrder) THEN << >>
    ELSE LET l == LineOrder[i]
             matches == OfLine(agg, l)
             rows == IF l \notin DOMAIN po THEN << >>
                     ELSE IF matches = << >>
                     THEN << [line |-> l, po |-> po[l], total_qty |-> 0,
                              total_amount |-> Fin(0)] >>
                     ELSE [k \in 1..Len(matches) |->
                              [line |-> l, po |-> po[l],
                               total_qty |-> matches[k].total_qty,
                               total_amount |-> fillna(matches[k].total_amount)]]
         IN  rows \o LeftMerge(po, agg, i + 1)

\* po_df["PO Receipt Status"] == "CLOSED PO"
already_closed(row) == row.status = "CLOSED PO"

\* A cost_impact_pct cell; NULL is a missing cell.
Pct(n, d) == [null |-> FALSE, num |-> n, den |-> d]
NullPct == [null |-> TRUE, num |-> 0, den |-> 1]

\* (cost_impact_value / Purchase Value USD).clip(0, 1), for a value above 0.
ClippedRatio(civ, value) ==
    IF civ.kind = "inf" THEN Pct(1, 1)
    ELSE IF civ.kind = "-inf" THEN Pct(0, 1)
    ELSE IF civ.kind = "nan" THEN NullPct
    ELSE IF civ.cents <= 0 THEN Pct(0, 1)
    ELSE IF civ.cents >= value THEN Pct(1, 1)
    ELSE Pct(civ.cents, value)

\* The calculated columns of one merged row.
OpenValuesRow(m) ==
    LET closed == already_closed(m.po)
        not_closed == ~closed
        civ == IF closed THEN Fin(m.po.value) ELSE m.total_amount
    IN  [line |-> m.line,
         status |-> m.po.status,
         ordered |-> m.po.ordered,
         value |-> m.po.value,
         open_po_qty |-> IF closed THEN 0 ELSE m.po.ordered - m.total_qty,
         open_po_value |-> IF closed THEN Fin(0)
                           ELSE FloatSub(Fin(m.po.value), m.total_amount),
         cost_impact_value |-> civ,
         cost_impact_pct |->
             IF closed THEN Pct(1, 1)
             ELSE IF m.po.value > 0 THEN ClippedRatio(civ, m.po.value)
             ELSE NullPct]

calculate_open_values(po, cost_df) ==
    LET merged == LeftMerge(po, cost_agg(cost_df), 1)
    IN  [i \in 1..Len(merged) |-> OpenValuesRow(merged[i])]

\* 06_prepare_po_line_items.py, steps 1 and 2 of main(): both intermediate files
\* are read and calculate_open_values is applied.
CalculateOpenValues ==
    /\ pc = "done"
    /\ open_values' = calculate_open_values(po_df, all_impact)
    /\ pc' = "prepare_po_transactions"
    /\ UNCHANGED << run, first_out, pipeline, toolVars, po_transactions, fileVars,
                    costVars, grirVars >>

\* ----------------------------- stage3_prepare/07_prepare_po_transactions.py
PO_TRANSACTIONS_MAPPING ==
    << "po_line_id", "transaction_type", "posting_date", "quantity",
       "cost_impact_qty", "cost_impact_amount" >>

\* map_columns: the mapped columns, three of them rounded, and the amount column.
map_columns(df) ==
    [i \in 1..Len(df) |->
        [po_line_id |-> df[i].line,
         transaction_type |-> df[i].type,
         posting_date |-> df[i].date,
         quantity |-> Round4(df[i].qty),
         cost_impact_qty |-> Round4(df[i].impact_qty),
         cost_impact_amount |-> df[i].impact_amount,
         amount |-> df[i].impact_amount]]

\* The columns of the output of map_columns.
OutputColumns == RowSet(PO_TRANSACTIONS_MAPPING) \cup {"amount"}

\* The columns POTransactionsSchema requires.
SchemaColumns ==
    {"transaction_id", "po_line_id", "transaction_type", "posting_date",
     "quantity", "amount", "cost_impact_qty", "cost_impact_amount"}

\* validate_output: the required columns are there, every type is GR or IR and,
\* where pandera is installed, the contract accepts the frame.
validate_output(df, pandera_available) ==
    /\ {"po_line_id", "transaction_type", "posting_date", "cost_impact_qty",
         "cost_impact_amount"} \subseteq OutputColumns
    /\ \A r \in RowSet(df) : r.transaction_type \in {"GR", "IR"}
    /\ pandera_available =>
          /\ SchemaColumns \subseteq OutputColumns
          /\ \A r \in RowSet(df) : r.cost_impact_amount.kind # "nan"

\* 07_prepare_po_transactions.py: main(), with or without pandera installed.
PreparePoTransactions ==
    /\ pc = "prepare_po_transactions"
    /\ \E pandera_available \in BOOLEAN :
          LET output_df == map_columns(all_impact)
          IN  IF validate_output(output_df, pandera_available)
              THEN /\ po_transactions' = save_data(po_transactions, output_df)
                   /\ pc' = "prepared"
              ELSE /\ pc' = "po_transactions_failed"
                   /\ UNCHANGED po_transactions
    /\ UNCHANGED << run, first_out, pipeline, toolVars, open_values, fileVars,
                    costVars, grirVars >>

\* The three stages one after the other.
InitPrepare == InitWith(PrepareTables)

NextPrepare ==
    \/ LoadGRRow
    \/ LoadIRRow
    \/ ClassifyPoLineItems
    \/ CalculateSimpleCostImpact
    \/ ComplexCombine
    \/ ComplexStep
    \/ SaveCostImpact
    \/ IdentifySimplePOs
    \/ GrirCombine
    \/ GrirStep
    \/ SaveGrirExposures
    \/ CalculateOpenValues
    \/ PreparePoTransactions

SpecPrepare == InitPrepare /\ [][NextPrepare]_vars

\* The classes as the specification words them.
IsSimpleLine(l) == po_df[l].vendor = "GLD" /\ po_df[l].acct \in {"K", "P", "S", "V"}
IsComplexLine(l) == ~IsSimpleLine(l)
IsClosedLine(l) == po_df[l].status = "CLOSED PO"

C2_SimplePassthrough ==
    pc = "done" =>
        \A l \in Lines : IsSimpleLine(l) =>
            LET recs == OfLine(all_impact, l)
                grs == OfLine(gr_df, l)
                Want(r) == [line |-> l, date |-> r.date, type |-> "GR", qty |-> r.qty,
                            impact_qty |-> r.qty, impact_amount |-> r.amount]
            IN  /\ SameBag(recs, [i \in 1..Len(grs) |-> Want(grs[i])])
                /\ SumImpactQty(recs) = SumQty(grs)

\* A Simple line with two GR postings and an IR posting.
C2_Witness ==
    /\ pc = "done"
    /\ \E l \in Lines :
          /\ IsSimpleLine(l)
          /\ Len(OfLine(gr_df, l)) = 2
          /\ Len(OfLine(ir_df, l)) = 1
          /\ Len(OfLine(all_impact, l)) = 2

\* C3: no GRIR exposure record exists for a PO line that is closed, whose vendor
\* category is not GLD or whose account assignment category is not K, P, S or V;
\* no posting of such a line enters the posting walk.
C3_GrirEligibility ==
    LET Eligible(l) == IsSimpleLine(l) /\ ~IsClosedLine(l)
    IN  /\ \A k \in 1..Len(grir_results) : Eligible(grir_results[k].line)
        /\ \A k \in 1..Len(g_combined) : Eligible(g_combined[k].line)

\* A closed Simple line and a Complex line, each invoiced beyond its receipts,
\* after the GRIR run.
C3_Witness ==
    /\ pc = "done"
    /\ \E l \in Lines :
          IsSimpleLine(l) /\ IsClosedLine(l) /\ SumQty(OfLine(ir_df, l)) > SumQty(OfLine(gr_df, l))
    /\ \E l \in Lines :
          IsComplexLine(l) /\ SumQty(OfLine(ir_df, l)) > SumQty(OfLine(gr_df, l))
    /\ grir_results = << >>

IsEligibleLine(l) == IsSimpleLine(l) /\ ~IsClosedLine(l)

\* Sum of IR quantities minus sum of GR quantities of a line, from the input tables.
NetInvoiced(l) == SumQty(OfLine(ir_df, l)) - SumQty(OfLine(gr_df, l))

\* C4: every emitted GRIR exposure record has GRIR Qty > 0, and no PO line whose
\* cumulative IR is at most its cumulative GR at the end of its stream is in the
\* output.
C4_PositiveGrirQty ==
    /\ \A k \in 1..Len(grir_results) : grir_results[k].grir_qty > 0
    /\ pc = "done" =>
          \A l \in Lines : NetInvoiced(l) <= 0 => OfLine(grir_results, l) = << >>

\* Balance (IR minus GR) of a stream after its first k postings.
Balance(s, k) == SumQty(OfType(Prefix(s, k), "IR")) - SumQty(OfType(Prefix(s, k), "GR"))

\* Date of the posting that most recently took the stream from balance <= 0 (or
\* from the empty start) to balance > 0, or None when the balance is not positive.
LastOpening(s) ==
    IF Balance(s, Len(s)) > 0
    THEN LET opens == {k \in 1..Len(s) : Balance(s, k) > 0 /\ Balance(s, k - 1) <= 0}
             last == CHOOSE k \in opens : \A j \in opens : j <= k
         IN  s[last].date
    ELSE None

\* C5: during the GRIR walk first_exposure_date is the date of the posting that
\* most recently opened the exposure: unchanged while IR > GR persists, cleared
\* by a posting after which GR >= IR, taken afresh from the reopening posting;
\* every emitted record carries that date (IR 10 day 1, GR 10 day 2, IR 3 day 3
\* gives quantity 3 and day 3).
C5_FirstExposureDate ==
    /\ (pc = "grir_loop" /\ gi > 1) =>
          first_exposure_date
             = LastOpening(OfLine(Prefix(g_combined, gi - 1), g_combined[gi - 1].line))
    /\ \A k \in 1..Len(grir_results) :
          grir_results[k].first_exposure_date
             = LastOpening(OfLine(g_combined, grir_results[k].line))
    /\ LET day1 == TrackExposure(None, 1, 0, 300000)
           day2 == TrackExposure(day1, 2, 300000, 300000)
           day3 == TrackExposure(day2, 3, 300000, 390000)
           rec == ExposureRecords("P1", 300000, 390000, day3,
                                  [P1 |-> [num |-> 1, den |-> 3]], 3)
       IN  /\ day1 = 1 /\ day2 = None /\ day3 = 3
           /\ Len(rec) = 1 /\ rec[1].grir_qty = 30000 /\ rec[1].first_exposure_date = 3

\* An exposure opened on day 1, closed by a GR and reopened by an IR on day 2,
\* emitted with day 2.
C5_Witness ==
    /\ pc = "done"
    /\ \E k \in 1..Len(grir_results) :
          LET s == OfLine(g_combined, grir_results[k].line)
          IN  /\ Len(s) = 3
              /\ s[1].type = "IR" /\ s[1].date = 1 /\ Balance(s, 1) > 0
              /\ s[2].type = "GR" /\ Balance(s, 2) <= 0
              /\ s[3].type = "IR" /\ s[3].date = 2 /\ Balance(s, 3) > 0
              /\ grir_results[k].first_exposure_date = 2

C7_ClassificationPartition ==
    pc = "simple" =>
        /\ \A l \in Lines :
              /\ l \in simple_po_ids <=> IsSimpleLine(l)
              /\ l \in complex_po_ids <=> ~IsSimpleLine(l)
              /\ (po_df[l].vendor = NaN \/ po_df[l].acct = NaN) => l \in complex_po_ids
        /\ simple_po_ids \cap complex_po_ids = {}
        /\ simple_po_ids \cup complex_po_ids = Lines

\* A table with a line of category V classified Simple and a line without
\* vendor category classified Complex.
C7_Witness ==
    /\ pc = "simple"
    /\ \E l \in simple_po_ids : po_df[l].acct = "V"
    /\ \E l \in complex_po_ids : po_df[l].vendor = NaN /\ po_df[l].acct = "K"

\* Ascending Posting Date within each line, GR before IR on a shared date.
InConsumptionOrder(s) ==
    \A i, j \in 1..Len(s) :
        (i < j /\ s[i].line = s[j].line) =>
            /\ s[i].date <= s[j].date
            /\ s[i].date = s[j].date => ~(s[i].type = "IR" /\ s[j].type = "GR")

Posting(r) == [line |-> r.line, date |-> r.date, type |-> r.type, qty |-> r.qty]

\* The postings of the lines in ids, as the input tables list them.
InputPostings(ids) ==
    TagGR(SelectLines(gr_df, ids)) \o TagIR(SelectLines(ir_df, ids))

\* C8: within a PO line the Complex fold and the GRIR fold consume postings in
\* ascending Posting Date order, GR before IR on a shared date, whatever the row
\* order of the GR and IR tables: the k-th record of the Complex fold is the k-th
\* posting of that order and the GRIR walk follows the same order.
C8_ConsumptionOrder ==
    /\ InConsumptionOrder(combined)
    /\ InConsumptionOrder(g_combined)
    /\ InConsumptionOrder(results)
    /\ \A k \in 1..Len(results) : Posting(results[k]) = combined[k]
    /\ pc \in {"complex_loop", "grir_ids", "grir_merge", "grir_loop", "done"} =>
          SameBag(combined, InputPostings({l \in Lines : IsComplexLine(l)}))
    /\ pc \in {"grir_loop", "done"} =>
          SameBag(g_combined, InputPostings({l \in Lines : IsEligibleLine(l)}))

\* A line whose GR table lists day 2 before day 1 and whose IR posting shares day
\* 1: consumed as GR day 1, IR day 1, GR day 2.
C8_Witness ==
    /\ pc = "done"
    /\ \E l \in Lines :
          LET grs == OfLine(gr_df, l)
              s == OfLine(IF IsComplexLine(l) THEN combined ELSE g_combined, l)
          IN  /\ Len(grs) = 2 /\ grs[1].date = 2 /\ grs[2].date = 1
              /\ Len(OfLine(ir_df, l)) = 1 /\ OfLine(ir_df, l)[1].date = 1
              /\ Len(s) = 3
              /\ s[1].type = "GR" /\ s[1].date = 1
              /\ s[2].type = "IR" /\ s[2].date = 1
              /\ s[3].type = "GR" /\ s[3].date = 2

\* C9: for every Complex PO line the cost impact output holds one record per GR
\* and per IR posting of the line, carrying its type, date and quantity, also when
\* the Cost Impact Qty is zero; a line without postings has no cost impact record
\* and no GRIR record.
C9_NoPostingDropped ==
    pc = "done" =>
        \A l \in Lines :
            /\ IsComplexLine(l) =>
                  /\ Len(OfLine(all_impact, l))
                        = Len(OfLine(gr_df, l)) + Len(OfLine(ir_df, l))
                  /\ SameBag([i \in 1..Len(OfLine(all_impact, l)) |-> Posting(OfLine(all_impact, l)[i])],
                             InputPostings({l}))
            /\ (OfLine(gr_df, l) = << >> /\ OfLine(ir_df, l) = << >>) =>
                  /\ OfLine(all_impact, l) = << >>
                  /\ OfLine(grir_results, l) = << >>

\* A Complex line with three postings, one of them with a zero delta, and three
\* records, next to a line without postings.
C9_Witness ==
    /\ pc = "done"
    /\ \E l \in Lines :
          /\ IsComplexLine(l)
          /\ Len(OfLine(gr_df, l)) + Len(OfLine(ir_df, l)) = 3
          /\ Len(OfLine(all_impact, l)) = 3
          /\ \E k \in 1..3 : OfLine(all_impact, l)[k].impact_qty = 0
    /\ \E l \in Lines : OfLine(gr_df, l) = << >> /\ OfLine(ir_df, l) = << >>

\* The Complex fold of one line's own stream, from counters 0.
RECURSIVE OwnComplexFold(_, _, _, _, _)
OwnComplexFold(s, gr, ir, last, price) ==
    IF s = << >> THEN << >>
    ELSE LET r == Head(s)
             gr1 == IF r.type = "GR" THEN gr + r.qty ELSE gr
             ir1 == IF r.type = "IR" THEN ir + r.qty ELSE ir
             mark == Max(gr1, ir1)
         IN  << [line |-> r.line, date |-> r.date, type |-> r.type, qty |-> r.qty,
                 impact_qty |-> mark - last,
                 impact_amount |-> RoundAmount(mark - last, price)] >>
             \o OwnComplexFold(Tail(s), gr1, ir1, mark, price)

\* The GRIR walk of one line's own stream, from counters 0 and no date.
RECURSIVE OwnGrirFold(_, _, _, _)
OwnGrirFold(s, gr, ir, fed) ==
    IF s = << >> THEN [gr |-> gr, ir |-> ir, fed |-> fed]
    ELSE LET r == Head(s)
             gr1 == IF r.type = "GR" THEN gr + r.qty ELSE gr
             ir1 == IF r.type = "IR" THEN ir + r.qty ELSE ir
             fed1 == IF gr1 >= ir1 THEN None ELSE IF fed = None THEN r.date ELSE fed
         IN  OwnGrirFold(Tail(s), gr1, ir1, fed1)

\* The cost impact records of a line, from its own PO row and own postings only.
OwnCostImpact(l, row, own_gr, own_ir) ==
    LET price == [num |-> row.value, den |-> row.ordered]
        stream == SortValues(TagGR(own_gr) \o TagIR(own_ir))
        Passthrough(r) == [line |-> l, date |-> r.date, type |-> "GR", qty |-> r.qty,
                           impact_qty |-> r.qty, impact_amount |-> r.amount]
    IN  IF row.vendor = "GLD" /\ row.acct \in {"K", "P", "S", "V"}
        THEN SortValues2([i \in 1..Len(own_gr) |-> Passthrough(own_gr[i])])
        ELSE OwnComplexFold(stream, 0, 0, 0, price)

\* The GRIR record of a line, from its own PO row and own postings only.
OwnGrirExposure(l, row, own_gr, own_ir) ==
    LET price == [num |-> row.value, den |-> row.ordered]
        stream == SortValues(TagGR(own_gr) \o TagIR(own_ir))
        end == OwnGrirFold(stream, 0, 0, None)
    IN  IF /\ row.vendor = "GLD" /\ row.acct \in {"K", "P", "S", "V"}
           /\ row.status # "CLOSED PO"
           /\ end.ir - end.gr > 0
        THEN << [line |-> l, grir_qty |-> RoundHalfEven(end.ir - end.gr, 3),
                 grir_value |-> RoundAmount(end.ir - end.gr, price),
                 first_exposure_date |-> end.fed,
                 days_open |-> snapshot_date - end.fed,
                 time_bucket |-> categorize_time_bucket(snapshot_date - end.fed),
                 snapshot_date |-> snapshot_date] >>
        ELSE << >>

\* C10: the cost impact records and the GRIR record of a PO line are a function of
\* that line's own PO row and own postings, whatever the other line's postings
\* are; after the first posting of a line the counters hold that posting alone.
C10_NoCrossLineLeakage ==
    /\ pc = "done" =>
          \A l \in Lines :
              /\ OfLine(all_impact, l)
                    = OwnCostImpact(l, po_df[l], OfLine(gr_df, l), OfLine(ir_df, l))
              /\ OfLine(grir_results, l)
                    = OwnGrirExposure(l, po_df[l], OfLine(gr_df, l), OfLine(ir_df, l))
    /\ (/\ pc = "complex_loop" /\ ci > 1
        /\ (ci = 2 \/ combined[ci - 2].line # combined[ci - 1].line)) =>
          /\ cumulative_gr + cumulative_ir = combined[ci - 1].qty
          /\ cumulative_gr * cumulative_ir = 0
    /\ (/\ pc = "grir_loop" /\ gi > 1
        /\ (gi = 2 \/ g_combined[gi - 2].line # g_combined[gi - 1].line)) =>
          /\ g_cumulative_gr + g_cumulative_ir = g_combined[gi - 1].qty
          /\ g_cumulative_gr * g_cumulative_ir = 0

\* Two Complex lines folded one after the other, the first ending with a non-zero
\* recognized total, after both runs.
C10_Witness ==
    /\ pc = "done"
    /\ \A l \in Lines : OfLine(results, l) # << >>
    /\ SumImpactQty(OfLine(results, "P1")) # 0
    /\ Len(results) = 3

IsFinite(a) == a.kind = "fin"

\* C11: for a PO line whose Ordered Quantity is 0 no emitted Cost Impact Amount
\* and no emitted GRIR Value is infinite or NaN.
C11_NoInfNanAmount ==
    /\ \A k \in 1..Len(all_impact) :
          po_df[all_impact[k].line].ordered = 0 => IsFinite(all_impact[k].impact_amount)
    /\ \A k \in 1..Len(grir_results) :
          po_df[grir_results[k].line].ordered = 0 => IsFinite(grir_results[k].grir_value)

\* C12: every emitted GRIR exposure record has Days Open equal to the number of
\* days from its first_exposure_date to the snapshot date, and Days Open >= 0.
C12_DaysOpenNonNegative ==
    \A k \in 1..Len(grir_results) :
        /\ grir_results[k].first_exposure_date # None
        /\ grir_results[k].snapshot_date = snapshot_date
        /\ grir_results[k].days_open
              = grir_results[k].snapshot_date - grir_results[k].first_exposure_date
        /\ grir_results[k].days_open >= 0

TimeBucketLabels == {"<1 month", "1-3 months", "3-6 months", "6-12 months", ">1 year"}

\* Position of a label in the order of the buckets.
BucketRank(b) ==
    IF b = "<1 month" THEN 1
    ELSE IF b = "1-3 months" THEN 2
    ELSE IF b = "3-6 months" THEN 3
    ELSE IF b = "6-12 months" THEN 4
    ELSE 5

\* C13: categorize_time_bucket is total and returns the label of the smallest
\* threshold that days does not exceed (<= 30 "<1 month", 31..90 "1-3 months",
\* 91..180 "3-6 months", 181..365 "6-12 months", above 365 ">1 year"); every
\* emitted record's Time Bucket is one of the five labels and a larger days value
\* never maps to an earlier bucket.
C13_TimeBucket ==
    \A k \in 1..Len(grir_results) :
        LET days == grir_results[k].days_open
            bucket == grir_results[k].time_bucket
        IN  /\ bucket \in TimeBucketLabels
            /\ bucket = (IF days <= 30 THEN "<1 month"
                         ELSE IF days <= 90 THEN "1-3 months"
                         ELSE IF days <= 180 THEN "3-6 months"
                         ELSE IF days <= 365 THEN "6-12 months"
                         ELSE ">1 year")
            /\ \A d \in -2..MaxSnapshotDate :
                  /\ categorize_time_bucket(d) \in TimeBucketLabels
                  /\ d <= days => BucketRank(categorize_time_bucket(d)) <= BucketRank(bucket)
                  /\ d >= days => BucketRank(categorize_time_bucket(d)) >= BucketRank(bucket)

\* A record whose exposure has been open for exactly 365 days, in the
\* "6-12 months" bucket.
C13_Witness ==
    /\ pc = "done"
    /\ \E k \in 1..Len(grir_results) :
          /\ grir_results[k].days_open = 365
          /\ grir_results[k].time_bucket = "6-12 months"

\* A line with at least one GR posting and no IR posting.
IsGrOnly(l) == OfLine(gr_df, l) # << >> /\ OfLine(ir_df, l) = << >>

\* C14: a PO line that has only GR postings and no IR posting never appears in
\* the GRIR output, whatever the GR quantities are.
C14_GrOnlyNeverExposed ==
    pc = "done" =>
        \A l \in Lines : IsGrOnly(l) => OfLine(grir_results, l) = << >>

\* What the walk does for such a line: no record when its GR quantities sum to 0
\* or more, one record exactly when the line is eligible and its GR quantities
\* sum to less than 0.
GrOnlyNetReceived ==
    pc = "done" =>
        \A l \in Lines : IsGrOnly(l) =>
            /\ SumQty(OfLine(gr_df, l)) >= 0 => OfLine(grir_results, l) = << >>
            /\ OfLine(grir_results, l) # << >>
                  <=> (IsEligibleLine(l) /\ SumQty(OfLine(gr_df, l)) < 0)
            /\ Len(OfLine(grir_results, l)) <= 1

\* The PO Line IDs of the rows of a table.
LinesOf(s) == {s[i].line : i \in 1..Len(s)}

\* C15: every PO Line ID of the cost impact output and of the GRIR output exists
\* in the PO line table; a GR or IR posting whose PO line is not in the table
\* leaves no row in the cleaned posting tables, in the merged streams or in the
\* outputs, and the run goes on to its end.
C15_NoOrphanOutput ==
    /\ LinesOf(gr_df) \subseteq DOMAIN po_df
    /\ LinesOf(ir_df) \subseteq DOMAIN po_df
    /\ LinesOf(simple_impact) \subseteq DOMAIN po_df
    /\ LinesOf(combined) \subseteq DOMAIN po_df
    /\ LinesOf(results) \subseteq DOMAIN po_df
    /\ LinesOf(all_impact) \subseteq DOMAIN po_df
    /\ LinesOf(g_combined) \subseteq DOMAIN po_df
    /\ LinesOf(grir_results) \subseteq DOMAIN po_df
    /\ pc \in {"load", "simple", "complex_merge", "complex_loop", "grir_ids",
               "grir_merge", "grir_loop", "done"}
    /\ pc # "done" => ENABLED NextOrphan

\* A finished run whose exports held two postings without a PO line next to a
\* posting that produced a cost impact record.
C15_Witness ==
    /\ pc = "done"
    /\ dropped_count = 2
    /\ Len(all_impact) = 1

\* C16: in one run of calculate_grir_exposures a PO Line ID appears in at most one
\* GRIR exposure record, however many GR and IR postings the line has.
C16_OneRecordPerLine ==
    /\ \A l \in Lines : Len(OfLine(grir_results, l)) <= 1
    /\ \A i, j \in 1..Len(grir_results) :
          grir_results[i].line = grir_results[j].line => i = j

\* A line invoiced twice and received once, exposed after each of its postings,
\* with a single record at the end of the run.
C16_Witness ==
    /\ pc = "done"
    /\ \E l \in Lines :
          /\ Len(OfLine(ir_df, l)) = 2
          /\ Len(OfLine(gr_df, l)) = 1
          /\ Len(OfLine(g_combined, l)) = 3
          /\ \A k \in 1..3 : Balance(OfLine(g_combined, l), k) > 0
          /\ Len(OfLine(grir_results, l)) = 1

\* Every row order of a table.
Perms(s) ==
    LET n == Len(s)
        Orders == {f \in [1..n -> 1..n] : \A a, b \in 1..n : f[a] = f[b] => a = b}
    IN  {[i \in 1..n |-> s[f[i]]] : f \in Orders}

\* The records of line l agree with a run whose tables list the line's GR rows as
\* gr2 and its IR rows as ir2: the same Cost Impact Qty per posting of a Complex
\* line, the same first_exposure_date of an eligible line.
SameAsRunOn(l, gr2, ir2) ==
    LET other == OwnGrirExposure(l, po_df[l], gr2, ir2)
        mine == OfLine(grir_results, l)
    IN  /\ IsComplexLine(l) =>
              SameBag(OfLine(all_impact, l), OwnCostImpact(l, po_df[l], gr2, ir2))
        /\ IsEligibleLine(l) =>
              /\ Len(other) = Len(mine)
              /\ Len(mine) = 1 =>
                    other[1].first_exposure_date = mine[1].first_exposure_date

\* C17: for a fixed set of GR and IR postings of a PO line, the per-posting Cost
\* Impact Qty values of the Complex algorithm and the first_exposure_date of the
\* GRIR record are the same for every row order of the GR and IR tables, also
\* when several postings of the same type share a date.
C17_RowOrderIndependent ==
    pc = "done" =>
        \A l \in Lines :
            \A gr2 \in Perms(OfLine(gr_df, l)), ir2 \in Perms(OfLine(ir_df, l)) :
                SameAsRunOn(l, gr2, ir2)

\* No two rows of the table share a Posting Date.
DistinctDates(s) == \A i, j \in 1..Len(s) : s[i].date = s[j].date => i = j

\* The same for lines whose postings of one type all differ in date, where the
\* sort key decides the order of every pair of rows.
RowOrderIndependentOnDistinctKeys ==
    pc = "done" =>
        \A l \in Lines :
            (DistinctDates(OfLine(gr_df, l)) /\ DistinctDates(OfLine(ir_df, l))) =>
                \A gr2 \in Perms(OfLine(gr_df, l)), ir2 \in Perms(OfLine(ir_df, l)) :
                    SameAsRunOn(l, gr2, ir2)

\* C18: running the cost impact script and the GRIR script twice on identical PO
\* line, GR and IR tables with the same snapshot date gives identical output both
\* times, and the first run leaves the tables as it found them.
C18_SecondRunIdentical ==
    /\ (run = 2 /\ pc \in {"grir_ids", "grir_merge", "grir_loop", "done"}) =>
          all_impact = first_out.cost_impact
    /\ (run = 2 /\ pc = "done") =>
          /\ grir_results = first_out.grir
          /\ snapshot_date = first_out.snapshot_date
    /\ run = 2 =>
          /\ po_df = first_out.po
          /\ gr_df = first_out.gr
          /\ ir_df = first_out.ir

\* The end of a second run whose outputs hold a Simple record, a Complex record
\* and a GRIR exposure record.
C18_Witness ==
    /\ run = 2
    /\ pc = "done"
    /\ simple_impact # << >>
    /\ results # << >>
    /\ grir_results # << >>
    /\ Len(all_impact) = Len(first_out.cost_impact)

\* No posting of the line has a malformed cell.
IsCleanLine(l) ==
    \A r \in RowSet(OfLine(gr_df, l) \o OfLine(ir_df, l)) : r.date # BadDate

\* C19: a failure while processing one PO line's posting stream is isolated to
\* that line: the batch is not aborted and the engines still emit the records of
\* every other PO line.
C19_FailureIsolated ==
    /\ pc \notin {"cost_impact_failed", "grir_failed"}
    /\ pc = "done" =>
          \A l \in Lines : IsCleanLine(l) =>
              /\ OfLine(all_impact, l)
                    = OwnCostImpact(l, po_df[l], OfLine(gr_df, l), OfLine(ir_df, l))
              /\ OfLine(grir_results, l)
                    = OwnGrirExposure(l, po_df[l], OfLine(gr_df, l), OfLine(ir_df, l))


\* The scripts of the stages 1..m in the order run_pipeline reaches them.
ScriptsUpTo(m) ==
    IF m = 1 THEN STAGE1_SCRIPTS
    ELSE IF m = 2 THEN STAGE1_SCRIPTS \o STAGE2_SCRIPTS
    ELSE STAGE1_SCRIPTS \o STAGE2_SCRIPTS \o STAGE3_SCRIPTS

\* A script was missing or exited with a non-zero code.
PipelineHasFailure ==
    \/ pipeline.not_found # << >>
    \/ \E i \in 1..Len(pipeline.returncodes) : pipeline.returncodes[i] # 0

\* C20: run_pipeline starts the scripts in the order stage 1, stage 2, stage 3 and
\* in list order within a stage; a script is started only after every earlier
\* script has exited with code 0; once a script is missing or has exited with a
\* non-zero code no later script is started and the pipeline exits with a
\* non-zero status (and with 0 only when every script ran and exited with 0).
C20_PipelineOrderAndStop ==
    LET all == ScriptsUpTo(pipeline.max_stage)
        n   == Len(pipeline.started)
        k   == Len(pipeline.returncodes)
    IN  /\ n <= Len(all)
        /\ \A i \in 1..n : pipeline.started[i] = all[i]
        /\ k \in {n, n - 1}
        /\ \A i \in 1..n : \A j \in 1..(i - 1) : j <= k /\ pipeline.returncodes[j] = 0
        /\ Len(pipeline.not_found) <= 1
        /\ pipeline.not_found # << >> =>
              /\ n < Len(all)
              /\ pipeline.not_found[1] = all[n + 1]
              /\ k = n
        /\ PipelineHasFailure =>
              /\ pipeline.pc \in {"stage_failed", "exited"}
              /\ ~ ENABLED StartScript
              /\ pipeline.pc = "stage_failed" => ENABLED PipelineFailed
              /\ pipeline.pc = "exited" => pipeline.exit_status # 0
        /\ (pipeline.pc = "exited" /\ ~ PipelineHasFailure) =>
              /\ pipeline.exit_status = 0
              /\ pipeline.started = all
              /\ k = n

\* 05_calculate_cost_impact.py exited with 1 in a full run: 06_calculate_grir.py
\* and the stage 3 scripts were never started and the pipeline exited with 1.
C20_Witness ==
    /\ pipeline.pc = "exited"
    /\ pipeline.max_stage = 3
    /\ pipeline.exit_status = 1
    /\ pipeline.started = STAGE1_SCRIPTS \o SubSeq(STAGE2_SCRIPTS, 1, 2)
    /\ pipeline.returncodes = << 0, 0, 0, 0, 1 >>


\* max(cumulative GR, cumulative IR) of a stream.
HighWaterMark(s) == Max(SumQty(OfType(s, "GR")), SumQty(OfType(s, "IR")))

RECURSIVE SumImpactAmount(_)
SumImpactAmount(s) ==
    IF s = << >> THEN Fin(0)
    ELSE FloatAdd(SumImpactAmount(SubSeq(s, 1, Len(s) - 1)), s[Len(s)].impact_amount)

Abs(x) == IF x >= 0 THEN x ELSE -x

\* The amounts of the records add up to qty x price, to within half a cent per
\* record, and exactly when every product qty x price is a whole number of cents.
SumsToTotal(recs, price) ==
    LET total == SumImpactQty(recs)
        sum == SumImpactAmount(recs)
    IN  /\ price.den # 0
        /\ IsFinite(sum)
        /\ 2 * Abs(sum.cents * price.den - total * price.num) <= Len(recs) * Abs(price.den)
        /\ (\A k \in 1..Len(recs) : (recs[k].impact_qty * price.num) % price.den = 0) =>
              sum.cents * price.den = total * price.num

\* C22: for a Complex PO line each Cost Impact Amount equals round(Cost Impact Qty
\* x unit price, 2), and the sum of the line's Cost Impact Amounts equals its total
\* recognized quantity x unit price within rounding tolerance, exactly when every
\* per-posting product is a whole number of cents.
C22_AmountsSumToTotal ==
    pc = "done" =>
        \A l \in Lines : IsComplexLine(l) =>
            LET recs == OfLine(all_impact, l)
                price == [num |-> po_df[l].value, den |-> po_df[l].ordered]
            IN  /\ \A k \in 1..Len(recs) :
                      recs[k].impact_amount = RoundAmount(recs[k].impact_qty, price)
                /\ recs # << >> => SumsToTotal(recs, price)

\* The same for the Complex lines whose Ordered Quantity is not 0.
AmountsSumToTotalOnFinitePrices ==
    pc = "done" =>
        \A l \in Lines : (IsComplexLine(l) /\ po_df[l].ordered # 0) =>
            LET recs == OfLine(all_impact, l)
                price == [num |-> po_df[l].value, den |-> po_df[l].ordered]
            IN  /\ \A k \in 1..Len(recs) :
                      recs[k].impact_amount = RoundAmount(recs[k].impact_qty, price)
                /\ SumsToTotal(recs, price)


\* The rows of open_values exist: calculate_open_values has returned.
OpenValuesReturned == pc \in {"prepare_po_transactions", "prepared", "po_transactions_failed"}

\* C23: calculate_open_values keeps exactly one row per PO line; for a line whose
\* receipt status is not "CLOSED PO" open_po_qty = Ordered Quantity minus the sum
\* of the line's Cost Impact Qty and open_po_value = Purchase Value USD minus the
\* sum of its Cost Impact Amount (0 for a line without records); for a line whose
\* status is "CLOSED PO" both are 0 whatever its postings are.
C23_OpenValues ==
    OpenValuesReturned =>
        /\ Len(open_values) = Cardinality(DOMAIN po_df)
        /\ \A l \in DOMAIN po_df :
              LET rows == OfLine(open_values, l)
                  recs == OfLine(all_impact, l)
              IN  /\ Len(rows) = 1
                  /\ IF po_df[l].status = "CLOSED PO"
                     THEN /\ rows[1].open_po_qty = 0
                          /\ rows[1].open_po_value = Fin(0)
                     ELSE /\ rows[1].open_po_qty = po_df[l].ordered - SumImpactQty(recs)
                          /\ rows[1].open_po_value
                                = FloatSub(Fin(po_df[l].value), SumImpactAmount(recs))

\* The same for the tables in which every Ordered Quantity is other than 0.
OpenValuesOnFinitePrices ==
    (\A l \in DOMAIN po_df : po_df[l].ordered # 0) => C23_OpenValues

\* An open line with two cost impact records next to a closed line with a
\* record, after calculate_open_values.
OpenValuesCases ==
    /\ OpenValuesReturned
    /\ \E l \in Lines :
          /\ po_df[l].status # "CLOSED PO"
          /\ po_df[l].ordered # 0
          /\ Len(OfLine(all_impact, l)) = 2
          /\ OfLine(open_values, l)[1].open_po_qty # po_df[l].ordered
    /\ \E l \in Lines :
          /\ po_df[l].status = "CLOSED PO"
          /\ po_df[l].ordered # 0
          /\ SumImpactQty(OfLine(all_impact, l)) # 0


\* C24: for every PO line produced by calculate_open_values, cost_impact_value
\* equals Purchase Value USD minus open_po_value, and cost_impact_pct is NULL when
\* Purchase Value USD is 0 and otherwise lies in [0, 1].
C24_CostImpactValueAndPct ==
    OpenValuesReturned =>
        \A k \in 1..Len(open_values) :
            LET r == open_values[k]
                pct == r.cost_impact_pct
            IN  /\ r.cost_impact_value = FloatSub(Fin(r.value), r.open_po_value)
                /\ IF r.value = 0
                   THEN pct.null
                   ELSE /\ ~ pct.null
                        /\ pct.den > 0
                        /\ 0 <= pct.num /\ pct.num <= pct.den

\* What calculate_open_values does: cost_impact_value is Purchase Value USD minus
\* open_po_value; cost_impact_pct is 1 for every closed line, NULL for an open
\* line whose Purchase Value USD is 0 and in [0, 1] for the other open lines.
CostImpactPctByStatus ==
    OpenValuesReturned =>
        \A k \in 1..Len(open_values) :
            LET r == open_values[k]
                pct == r.cost_impact_pct
            IN  /\ r.cost_impact_value = FloatSub(Fin(r.value), r.open_po_value)
                /\ IF r.status = "CLOSED PO" THEN pct = Pct(1, 1)
                   ELSE IF r.value = 0 THEN pct.null
                   ELSE /\ ~ pct.null
                        /\ pct.den > 0
                        /\ 0 <= pct.num /\ pct.num <= pct.den


\* The scripts that n depends on, directly or through other scripts.
DependsOnClosure(g, n) ==
    LET Step(S) == S \cup UNION {GraphGet(g, m) : m \in S}
    IN  Step(Step(Step(GraphGet(g, n))))

\* The graph contains a dependency cycle.
HasCycle(g) == \E n \in DOMAIN g : n \in DependsOnClosure(g, n)

\* Position of a script in a list.
IndexIn(s, x) == CHOOSE i \in 1..Len(s) : s[i] = x

\* C25: for a non-empty dependency graph topological_sort returns the empty list
\* if and only if the graph contains a dependency cycle; otherwise it returns
\* every script exactly once, each after all the scripts it depends on; its
\* verdict agrees with detect_cycles, on which validate bases passed.
C25_TopologicalSort ==
    order.pc = "validated" =>
        LET g == order.graph
            sorted == order.topo_order
        IN  /\ sorted = << >> <=> HasCycle(g)
            /\ sorted # << >> =>
                  /\ Len(sorted) = Cardinality(DOMAIN g)
                  /\ RowSet(sorted) = DOMAIN g
                  /\ \A n \in DOMAIN g : \A dep \in g[n] \cap DOMAIN g :
                        IndexIn(sorted, dep) < IndexIn(sorted, n)
            /\ sorted = << >> <=> order.cycles # << >>
            /\ order.passed <=> order.cycles = << >>

\* The same for the graphs in which every dependency is a script of the graph.
TopologicalSortOnListedDependencies ==
    (\A n \in DOMAIN order.graph : order.graph[n] \subseteq DOMAIN order.graph) =>
        C25_TopologicalSort

\* detect_cycles finds a cycle exactly in the graphs that contain one.
DetectCyclesIsExact ==
    order.pc = "validated" => (order.cycles # << >> <=> HasCycle(order.graph))


\* The sidecar records the source, the output and the code as they are now: a
\* source xlsx exists, the output CSV exists, the sidecar is readable, and the
\* recorded file name, mtime, size and dependency hash equal the current ones.
CacheIntact ==
    LET f == find_latest_xlsx(cache.source)
    IN  /\ f # NoFile
        /\ cache.output
        /\ cache.sidecar.kind = "json"
        /\ cache.sidecar.meta = [source_file |-> f,
                                 source_mtime |-> cache.source[f].mtime,
                                 source_size |-> cache.source[f].size,
                                 deps_hash |-> cache.deps]

\* C26: is_valid returns True only when a source xlsx exists, the output CSV
\* exists, the sidecar is readable and the recorded name, mtime, size and
\* dependency hash equal the current ones; with the cache intact (as right after
\* save_metadata with the output present) it returns True; after a change of the
\* source's name, mtime or size, or loss or corruption of the output or the
\* sidecar, it returns False, and it never raises.
C26_IsValid ==
    cache.call = "is_valid" =>
        /\ cache.outcome \in {"True", "False"}
        /\ cache.outcome = "True" <=> CacheIntact

\* The same for a manager that looks at the files as they are now (its source
\* path and dependency hash are the current ones) and a sidecar that decodes
\* as text.
IsValidOnCurrentManager ==
    ( /\ cache.manager._source_file = find_latest_xlsx(cache.source)
      /\ cache.manager.deps_hash = cache.deps
      /\ cache.sidecar.kind # "not_text" ) => C26_IsValid

\* is_valid returned True for an intact cache, and False after each kind of
\* change.
IsValidCases ==
    /\ cache.call = "is_valid"
    /\ cache.outcome = "True"
    /\ CacheIntact


\* C27: after every posting processed by calculate_grir_exposures
\* first_exposure_date is set if and only if cumulative IR > cumulative GR; hence
\* every emitted GRIR record has a first_exposure_date, and its Days Open is the
\* distance from that date to the snapshot, never the fallback 0 of an unset date.
C27_ExposureDateSetIffExposed ==
    /\ (pc = "grir_loop" /\ gi > 1) =>
          (first_exposure_date # None <=> g_cumulative_ir > g_cumulative_gr)
    /\ \A k \in 1..Len(grir_results) :
          LET rec == grir_results[k]
              st == OfLine(g_combined, rec.line)
          IN  /\ SumQty(OfType(st, "IR")) > SumQty(OfType(st, "GR"))
              /\ rec.first_exposure_date # None
              /\ rec.days_open = rec.snapshot_date - rec.first_exposure_date

\* A line that is not exposed after its first posting and exposed after its
\* last one, recorded with the date and the days of the later opening.
C27_Witness ==
    /\ pc = "done"
    /\ \E k \in 1..Len(grir_results) :
          LET rec == grir_results[k]
              st == OfLine(g_combined, rec.line)
          IN  /\ Len(st) >= 2
              /\ Balance(st, 1) <= 0
              /\ rec.first_exposure_date > st[1].date
              /\ rec.days_open = rec.snapshot_date - rec.first_exposure_date


\* The tables that hold the postings of s in any row order and with any Posting
\* Dates: the same multiset of quantities.
Redated(s) ==
    {[i \in 1..Len(s) |-> [p[i] EXCEPT !.date = d[i]]] :
        p \in Perms(s), d \in [1..Len(s) -> Dates]}

Cumulatives == (0 - MaxPostings)..(2 * MaxPostings)

\* The two tables list the same postings in the same order.
SamePostingsInOrder(a, b) ==
    /\ Len(a) = Len(b)
    /\ \A k \in 1..Len(a) :
          /\ a[k].date = b[k].date
          /\ a[k].type = b[k].type
          /\ a[k].qty = b[k].qty

C30_TransactionIds ==
    \A i \in 1..Len(po_transactions) :
        LET r == po_transactions[i]
        IN  /\ r.transaction_type \in {"GR", "IR"}
            /\ "transaction_id" \in DOMAIN r
            /\ r.transaction_id # None
            /\ \E seq \in 1..Len(po_transactions) :
                  r.transaction_id = << r.po_line_id, r.transaction_type, r.posting_date, seq >>
            /\ \A j \in 1..Len(po_transactions) :
                  po_transactions[j].transaction_id = r.transaction_id => i = j

\* What the output does hold: every row has transaction_type GR or IR and the
\* columns of map_columns, none of which is transaction_id; a frame that the
\* schema was applied to is never written.
TransactionRowsAsMapped ==
    \A i \in 1..Len(po_transactions) :
        /\ po_transactions[i].transaction_type \in {"GR", "IR"}
        /\ DOMAIN po_transactions[i] = OutputColumns
        /\ "transaction_id" \notin OutputColumns

====
